---------------------------- MODULE Spec2Model ----------------------------
(***************************************************************************)
(* A model of the Zero Motorcycles log extractor (extract_ride_data.py and *)
(* decode_vin.py).  Text is modelled as TLA+ strings handled character by  *)
(* character (Len, SubSeq, \o), so prefix, suffix and substring tests are  *)
(* computed the way the Python code computes them.  Python's None is the   *)
(* value None below; a call's outcome is Returned(value) or Raised(name).   *)
(***************************************************************************)
EXTENDS Integers, Sequences, FiniteSets, TLC

VARIABLES
    vin,              \* decode_vin: the argument
    vin_first,        \* decode_vin: what the first call returned
    vin_result,       \* decode_vin: what the latest call returned
    LogEntry_conditions, \* the class-level dict LogEntry.conditions (line 46)
    constructed,      \* the ZeroLogEntry constructions so far: line and outcome
    cond_input,       \* conditions_to_dict: what the conditions text is made of
    cond_result,      \* conditions_to_dict: what the call did
    header_input,     \* ZeroLogHeader: what the header block is made of
    header_result,    \* ZeroLogHeader: what the constructor did
    file_lines,       \* ZeroLogFile: the lines of the file after the divider
    file_result,      \* ZeroLogFile: what refresh did, with the entries it left
    primary_log,      \* JoinedLog: the list primary_log.entries
    secondary_log,    \* JoinedLog: the list of the one secondary log's entries
    joined,           \* JoinedLog: the joined log, once constructed
    lookup,           \* JoinedLog.entry_for_timestamp: the latest call and what it did
    message_input,    \* a classmethod of ZeroLogEntry on a message: the argument
    message_result,   \* that classmethod: what the call did
    scan_input,       \* the header scans: the lines of the input
    scan_read,        \* the header scans: how many lines the loop has taken
    scan_result       \* the header scans: what the scan did, once it ended

vinVars == <<vin, vin_first, vin_result>>

entryVars == <<LogEntry_conditions, constructed>>

condVars == <<cond_input, cond_result>>

headerVars == <<header_input, header_result>>

fileVars == <<file_lines, file_result>>

joinVars == <<primary_log, secondary_log, joined>>

messageVars == <<message_input, message_result>>

scanVars == <<scan_input, scan_read, scan_result>>

callVars == <<lookup, messageVars, scanVars>>

vars == <<vinVars, entryVars, condVars, headerVars, fileVars, joinVars, callVars>>

(***************************************************************************)
(* Python values                                                           *)
(***************************************************************************)
None == "<None>"

\* what a call did: it returned a value, or it raised the named exception
Returned(value) == [returned |-> value]

Raised(name) == [raised |-> name]

NotCalled == [called |-> FALSE]

HasReturned(outcome) == "returned" \in DOMAIN outcome

(***************************************************************************)
(* The parts of the program a specification below does not run            *)
(***************************************************************************)
\* decode_vin not in use
NoVin == vin = "" /\ vin_first = NotCalled /\ vin_result = NotCalled

\* no entry constructed yet: the class-level dict is the {} of line 46
NoEntries == LogEntry_conditions = << >> /\ constructed = << >>

\* conditions_to_dict not in use
NoConditions == cond_input = << >> /\ cond_result = NotCalled

\* no header constructed
NoHeader == header_input = << >> /\ header_result = NotCalled

\* no log file read
NoFile == file_lines = << >> /\ file_result = NotCalled

\* no logs to join
NoJoin == primary_log = << >> /\ secondary_log = << >> /\ joined = NotCalled

\* entry_for_timestamp not called
NoLookup == lookup = NotCalled

\* no classmethod called on a message
NoMessage == message_input = "" /\ message_result = NotCalled

\* no header scan started
NoScan == scan_input = << >> /\ scan_read = 0 /\ scan_result = NotCalled

NoCalls == NoLookup /\ NoMessage /\ NoScan

HasRaised(outcome) == "raised" \in DOMAIN outcome

\* Python truthiness of an optional str
Truthy(s) == s # None /\ s # ""

Min(a, b) == IF a <= b THEN a ELSE b

Max(a, b) == IF a >= b THEN a ELSE b

(***************************************************************************)
(* Python str operations, positions 0-based as in the source               *)
(***************************************************************************)
\* s[a:b] with Python's clamping of the bounds
Slice(s, a, b) == IF a >= Min(b, Len(s)) THEN "" ELSE SubSeq(s, a + 1, Min(b, Len(s)))

\* s[i], for an index the callers keep inside s
CharAt(s, i) == Slice(s, i, i + 1)

\* s[a:]
SliceFrom(s, a) == Slice(s, a, Len(s))

StartsWith(s, p) == Len(p) <= Len(s) /\ Slice(s, 0, Len(p)) = p

EndsWith(s, p) == Len(p) <= Len(s) /\ SliceFrom(s, Len(s) - Len(p)) = p

\* p in s
Contains(s, p) == \E i \in 0..(Len(s) - Len(p)) : Slice(s, i, i + Len(p)) = p

\* s.find(p): the first 0-based index of p in s, -1 when absent
Find(s, p) ==
    IF Contains(s, p)
    THEN CHOOSE i \in 0..(Len(s) - Len(p)) :
            /\ Slice(s, i, i + Len(p)) = p
            /\ \A j \in 0..(i - 1) : Slice(s, j, j + Len(p)) # p
    ELSE -1

RECURSIVE Split(_, _)
\* s.split(sep) for a non-empty separator: empty pieces are kept
Split(s, sep) ==
    LET i == Find(s, sep)
    IN  IF i < 0 THEN <<s>>
        ELSE <<Slice(s, 0, i)>> \o Split(SliceFrom(s, i + Len(sep)), sep)

RECURSIVE SplitMax(_, _, _)
\* s.split(sep, maxsplit)
SplitMax(s, sep, maxsplit) ==
    LET i == Find(s, sep)
    IN  IF i < 0 \/ maxsplit = 0 THEN <<s>>
        ELSE <<Slice(s, 0, i)>> \o SplitMax(SliceFrom(s, i + Len(sep)), sep, maxsplit - 1)

RECURSIVE JoinWith(_, _)
\* sep.join(texts)
JoinWith(texts, sep) ==
    IF texts = << >> THEN ""
    ELSE IF Len(texts) = 1 THEN texts[1]
    ELSE texts[1] \o sep \o JoinWith(Tail(texts), sep)

\* the characters str.strip() removes and the regular expressions' \s matches
Whitespace == {" ", "\t", "\n"}

\* [A-Za-z]
Letters ==
    {"A", "B", "C", "D", "E", "F", "G", "H", "I", "J", "K", "L", "M",
     "N", "O", "P", "Q", "R", "S", "T", "U", "V", "W", "X", "Y", "Z",
     "a", "b", "c", "d", "e", "f", "g", "h", "i", "j", "k", "l", "m",
     "n", "o", "p", "q", "r", "s", "t", "u", "v", "w", "x", "y", "z"}

\* \d
Digits == {"0", "1", "2", "3", "4", "5", "6", "7", "8", "9"}

RECURSIVE SkipWhile(_, _, _)
\* the index after the longest run of characters of class cls that starts at i
SkipWhile(s, i, cls) ==
    IF i < Len(s) /\ CharAt(s, i) \in cls THEN SkipWhile(s, i + 1, cls) ELSE i

RECURSIVE SkipBackWhile(_, _, _)
\* the start of the longest run of characters of class cls that ends before i
SkipBackWhile(s, i, cls) ==
    IF i > 0 /\ CharAt(s, i - 1) \in cls THEN SkipBackWhile(s, i - 1, cls) ELSE i

\* s.strip()
Strip(s) == Slice(s, SkipWhile(s, 0, Whitespace), SkipBackWhile(s, Len(s), Whitespace))

\* the least element of a non-empty set of integers
Least(S) == CHOOSE i \in S : \A j \in S : i <= j

(***************************************************************************)
(* decode_vin.py: the code tables                                          *)
(***************************************************************************)
YEARS_BY_CODE ==
    ("9" :> 2009) @@ ("A" :> 2010) @@ ("B" :> 2011) @@ ("C" :> 2012) @@
    ("D" :> 2013) @@ ("E" :> 2014) @@ ("F" :> 2015) @@ ("G" :> 2016) @@
    ("H" :> 2017) @@ ("J" :> 2018) @@ ("K" :> 2019) @@ ("L" :> 2020) @@
    ("M" :> 2021) @@ ("N" :> 2022) @@ ("P" :> 2023) @@ ("R" :> 2024) @@
    ("S" :> 2025)

MOTORS_BY_CODE ==
    ("M3" :> "9.1kW") @@ ("ZA" :> "11kW 75-5") @@ ("ZB" :> "11kW 75-7") @@
    ("Z1" :> "13kW") @@ ("Z2" :> "16kW 75-7") @@ ("Z3" :> "16kW 75-7R") @@
    ("Z4" :> "17kW 75-5") @@ ("Z5" :> "21kW 75-7") @@ ("Z6" :> "21kW 75-7R") @@
    ("Z7" :> "40kW 75-10R")

MODEL_LINES_BY_CODE ==
    ("M2" :> "S") @@ ("M3" :> "S") @@ ("M4" :> "S/SR/SP 8.5") @@
    ("M5" :> "S/SR/SP 11.4") @@ ("M7" :> "S/SR/SP 9.4") @@
    ("M8" :> "S/SR/SP 12.5") @@ ("M9" :> "S/SR/SP 13.0") @@
    ("M0" :> "S/SR/SP 9.8") @@ ("MB" :> "S/SP 6.5") @@
    ("MC" :> "S/SR/SP/SRP 13.0") @@ ("MD" :> "S 13.0 (11kW)") @@
    ("ME" :> "S 7.2 (11kW)") @@ ("MF" :> "S/SR 14.4") @@
    ("MG" :> "S 14.4 (11kW)") @@ ("MH" :> "S 7.2 (11kW)") @@
    ("MK" :> "S 14.4 (11kW)") @@ ("D2" :> "DS") @@ ("D3" :> "DS") @@
    ("D4" :> "DS") @@ ("D5" :> "DS/DSR/DSP 11.4") @@
    ("D6" :> "DS/DSR/DSP 8.5") @@ ("D7" :> "DS/DSR/DSP 9.4") @@
    ("D8" :> "DS/DSR/DSP 12.5") @@ ("D9" :> "DS/DSR/DSP 13.0") @@
    ("D0" :> "DS/DSR/DSP 9.8") @@ ("DA" :> "DS 6.5") @@
    ("DB" :> "DS/DSR/DSP/DSRP 13.0") @@ ("DC" :> "DS 7.2 (11kW)") @@
    ("DD" :> "DS/DSR 14.4") @@ ("DE" :> "DS 14.4 (11kW)") @@
    ("DF" :> "DS 7.2 (11kW)") @@ ("DH" :> "DS 14.4 (11kW)") @@
    ("X2" :> "MX") @@ ("X3" :> "FX") @@ ("X4" :> "FX/FXL") @@
    ("X5" :> "FXP/FXLP") @@ ("X6" :> "FX/FXS") @@ ("X7" :> "FXP") @@
    ("X8" :> "FX/FXS") @@ ("X9" :> "FXP") @@ ("XB" :> "FX/FXS/FXP") @@
    ("XC" :> "FX/FXS/FXP") @@ ("C2" :> "XU-LSM (CA)") @@
    ("L2" :> "XU-M (EU)") @@ ("U1" :> "XU") @@ ("U2" :> "XU") @@
    ("U3" :> "XU") @@ ("FA" :> "SRF")

MODELS_BY_CODE ==
    ("A" :> "S") @@ ("B" :> "DS") @@ ("C" :> "FX") @@ ("E" :> "XU") @@
    ("G" :> "SR/DSR") @@ ("H" :> "FXP") @@ ("J" :> "FXS") @@ ("K" :> "SRF")

(***************************************************************************)
(* decode_vin.py: decode_vin                                               *)
(***************************************************************************)
\* table[key]: whether the key is there (a missing key raises KeyError) and the value
Subscript(table, key) ==
    IF key \in DOMAIN table THEN [found |-> TRUE, value |-> table[key]]
    ELSE [found |-> FALSE]

\* the same lookup with a default for a missing key (table.get(key, 'S'))
SubscriptOrDefault(table, key) ==
    [found |-> TRUE, value |-> IF key \in DOMAIN table THEN table[key] ELSE "S"]

\* the model letter looked up with a default instead of the KeyError
ModelOfLetterOrDefault(v) == SubscriptOrDefault(MODELS_BY_CODE, CharAt(v, 11))

\* MODELS_BY_CODE[vin[11]]
ModelOfLetter(v) == Subscript(MODELS_BY_CODE, CharAt(v, 11))

\* lines 107-115
Platform(v, model_year) ==
    LET platform_code == CharAt(v, 3)
    IN  IF platform_code = "X" THEN (IF model_year > 2012 THEN "XMX" ELSE platform_code)
        ELSE IF platform_code = "S" THEN (IF model_year > 2012 THEN "SDS" ELSE platform_code)
        ELSE IF platform_code = "Z" THEN "FST"
        ELSE None

\* the year window of lines 128-129 as a swapped, inclusive comparison
SrYearWindowInclusive(model_year) == 2013 <= model_year /\ model_year <= 2016

\* 2013 < model_year < 2016
SrYearWindow(model_year) == 2013 < model_year /\ model_year < 2016

\* lines 124-136: the '/' disambiguation of the model name
ResolveModel(model, model_year, model_from_line, motor_size) ==
    IF Contains(model, "/")
    THEN LET m1 == IF model = "SR/DSR"
                   THEN IF SrYearWindow(model_year) THEN "SR"
                        ELSE IF Contains(model_from_line, "DS") THEN "DSR" ELSE "SR"
                   ELSE model
         IN  IF Truthy(motor_size)
             THEN IF Contains(m1, "DS/DSR")
                  THEN (IF motor_size = "75-7R" THEN "DSR" ELSE "DS")
                  ELSE IF Contains(m1, "S/SR")
                  THEN (IF motor_size = "75-7R" THEN "SR" ELSE "S")
                  ELSE m1
             ELSE m1
    ELSE model

decode_vin(v) ==
    LET year == Subscript(YEARS_BY_CODE, CharAt(v, 9))
        line == Subscript(MODEL_LINES_BY_CODE, Slice(v, 4, 6))
        motor == Subscript(MOTORS_BY_CODE, Slice(v, 6, 8))
        letter == ModelOfLetter(v)
    IN  IF ~(year.found /\ line.found /\ motor.found /\ letter.found)
        THEN Raised("KeyError")
        ELSE
        LET model_year == year.value
            model_line_parts == Split(line.value, " ")
            model_from_line == model_line_parts[1]
            model_line_capacity ==
                IF Len(model_line_parts) > 1 THEN model_line_parts[2] ELSE None
            model_line_power ==
                IF Len(model_line_parts) > 2 THEN model_line_parts[3] ELSE None
            motor_parts == SplitMax(motor.value, " ", 2)
            motor_power == IF Truthy(motor_parts[1]) THEN motor_parts[1] ELSE model_line_power
            motor_size == IF Len(motor_parts) > 1 THEN motor_parts[2] ELSE None
        IN  Returned(
            [manufacturer |-> IF Slice(v, 0, 3) = "538" THEN "Zero Motorcycles" ELSE None,
             plant_location |-> IF CharAt(v, 10) = "C" THEN "Santa Cruz, CA" ELSE None,
             year |-> model_year,
             platform |-> Platform(v, model_year),
             model |-> ResolveModel(letter.value, model_year, model_from_line, motor_size),
             motor |-> [power |-> motor_power, size |-> motor_size],
             pack_capacity |-> model_line_capacity])

(***************************************************************************)
(* The VINs decoded: every key of the four code tables and one code that   *)
(* is no key, in every combination; the other positions from a few values. *)
(***************************************************************************)
YearCodes == DOMAIN YEARS_BY_CODE \cup {"T"}

ModelLineCodes == DOMAIN MODEL_LINES_BY_CODE \cup {"Q1"}

MotorCodes == DOMAIN MOTORS_BY_CODE \cup {"Z9"}

ModelLetters == DOMAIN MODELS_BY_CODE \cup {"Z"}

\* world manufacturer id, platform code, plant code
VinFrames == {<<"538", "S", "C">>, <<"538", "X", "A">>, <<"1HD", "Z", "C">>, <<"1HD", "M", "A">>}

MakeVin(frame, line, motor, year, letter) ==
    frame[1] \o frame[2] \o line \o motor \o "7" \o year \o frame[3] \o letter \o "06073"

Vins == {MakeVin(f, l, m, y, c) : f \in VinFrames, l \in ModelLineCodes,
                                  m \in MotorCodes, y \in YearCodes, c \in ModelLetters}

InitVin ==
    /\ vin \in Vins /\ vin_first = NotCalled /\ vin_result = NotCalled
    /\ NoEntries /\ NoConditions /\ NoHeader /\ NoFile /\ NoJoin /\ NoCalls

\* the first call of decode_vin(vin)
DecodeVin ==
    /\ vin_first = NotCalled
    /\ vin_first' = decode_vin(vin)
    /\ vin_result' = decode_vin(vin)
    /\ UNCHANGED <<vin, entryVars, condVars, headerVars, fileVars, joinVars, callVars>>

\* a later call with the same argument
DecodeVinAgain ==
    /\ vin_first # NotCalled
    /\ vin_result' = decode_vin(vin)
    /\ UNCHANGED <<vin, vin_first, entryVars, condVars, headerVars, fileVars, joinVars, callVars>>

NextVin == DecodeVin \/ DecodeVinAgain

SpecVin == InitVin /\ [][NextVin]_vars

\* the four codes of a VIN that decode_vin looks up are keys of their tables
AllCodesKnown(v) ==
    /\ CharAt(v, 9) \in DOMAIN YEARS_BY_CODE
    /\ Slice(v, 4, 6) \in DOMAIN MODEL_LINES_BY_CODE
    /\ Slice(v, 6, 8) \in DOMAIN MOTORS_BY_CODE
    /\ CharAt(v, 11) \in DOMAIN MODELS_BY_CODE

\* C7: a 17-character VIN whose year, model-line, motor and model codes are all
\* table keys decodes to a descriptor, the same one on every call; a VIN with a
\* code that is no key makes decode_vin raise KeyError instead of defaulting.
C7_VinTotalOverTables ==
    vin_result # NotCalled =>
        /\ Len(vin) = 17
        /\ AllCodesKnown(vin) => HasReturned(vin_result) /\ vin_result = vin_first
        /\ ~AllCodesKnown(vin) => vin_result = Raised("KeyError")

C7_Witness ==
    /\ AllCodesKnown(vin)
    /\ HasReturned(vin_first)
    /\ HasReturned(vin_result)
    /\ vin_result.returned.year = 2016

ExampleVin == "538SD9Z37GCG06073"

\* the base name of a model line: its text up to the first space
BaseName(line) == IF Contains(line, " ") THEN Slice(line, 0, Find(line, " ")) ELSE line

\* C8: the decoded model never contains '/'; a model letter that maps to
\* 'SR/DSR' gives 'SR' for the years 2014 and 2015, else 'DSR' when the model
\* line's base name contains 'DS' and 'SR' when it does not; the VIN
\* 538SD9Z37GCG06073 decodes to the 2016 SDS DSR with a 16kW 75-7R motor and a
\* 13.0 pack, made by Zero Motorcycles in Santa Cruz, CA.
C8_ModelDisambiguated ==
    HasReturned(vin_result) =>
        LET d == vin_result.returned
            base == BaseName(MODEL_LINES_BY_CODE[Slice(vin, 4, 6)])
        IN  /\ ~Contains(d.model, "/")
            /\ MODELS_BY_CODE[CharAt(vin, 11)] = "SR/DSR" =>
                    d.model = IF d.year \in {2014, 2015} THEN "SR"
                              ELSE IF Contains(base, "DS") THEN "DSR" ELSE "SR"
            /\ vin = ExampleVin =>
                    d = [manufacturer |-> "Zero Motorcycles",
                         plant_location |-> "Santa Cruz, CA",
                         year |-> 2016,
                         platform |-> "SDS",
                         model |-> "DSR",
                         motor |-> [power |-> "16kW", size |-> "75-7R"],
                         pack_capacity |-> "13.0"]

C8_Witness ==
    /\ vin = ExampleVin
    /\ HasReturned(vin_result)
    /\ vin_result.returned.model = "DSR"


(***************************************************************************)
(* extract_ride_data.py: ZeroLogEntry, the decoding of one message         *)
(***************************************************************************)
EMPTY_CSV_VALUE == ""

\* a Python dict as a function from its keys; {} is the empty function
EmptyDict == << >>

\* local variables: a body given as a function of its local variable, whose
\* domain holds the one value assigned to it; the value is computed once
\* however often the body reads the variable
Local(body) == body[CHOOSE value \in DOMAIN body : TRUE]

\* d[key] = value
DictSet(d, key, value) == (key :> value) @@ d

\* lines 311-333: the level and the remainder of the message
decode_level_from_message(message) ==
    IF StartsWith(message, "INFO:")
    THEN [event_level |-> "INFO", event_contents |-> Strip(SliceFrom(message, 6))]
    ELSE IF StartsWith(message, "DEBUG:")
    THEN [event_level |-> "DEBUG", event_contents |-> Strip(SliceFrom(message, 7))]
    ELSE IF StartsWith(message, "- DEBUG:")
    THEN [event_level |-> "DEBUG", event_contents |-> Strip(SliceFrom(message, 9))]
    ELSE IF StartsWith(message, "WARNING:")
    THEN [event_level |-> "WARNING", event_contents |-> Strip(SliceFrom(message, 8))]
    ELSE IF StartsWith(message, "ERROR:")
    THEN [event_level |-> "ERROR", event_contents |-> Strip(SliceFrom(message, 7))]
    ELSE IF Contains(message, " error")
    THEN [event_level |-> "ERROR", event_contents |-> message]
    ELSE [event_level |-> EMPTY_CSV_VALUE, event_contents |-> message]

\* the dicts of lines 335-350 in their iteration (insertion) order
event_types_by_prefix ==
    << <<"0x", "UNKNOWN">>, <<"Riding", "RIDING">>, <<"Charging", "CHARGING">>,
       <<"Enabling", "ENABLING">>, <<"Disabling", "DISABLING">> >>

event_types_by_suffix ==
    << <<" Connected", "CONNECTED">>, <<" Disconnected", "DISCONNECTED">>,
       <<" Link Up", "CONNECTED">>, <<" Link Down", "DISCONNECTED">>,
       <<" On", "ON">>, <<" Off", "OFF">> >>

\* a for loop over table that stops (break) at the first item among hits, the
\* indices of the items that pass the loop's test: the item's value, or
\* otherwise when no item passes
FirstMatch(table, hits, otherwise) ==
    IF hits = {} THEN otherwise ELSE table[Least(hits)][2]

\* lines 352-373
decode_type_from_message(message) ==
    LET prefixes == {i \in DOMAIN event_types_by_prefix :
                        StartsWith(message, event_types_by_prefix[i][1])}
        suffixes == {i \in DOMAIN event_types_by_suffix :
                        EndsWith(message, event_types_by_suffix[i][1])}
        t1 == FirstMatch(event_types_by_prefix, prefixes, EMPTY_CSV_VALUE)
        t2 == FirstMatch(event_types_by_suffix, suffixes, t1)
        t3 == IF StartsWith(message, "Turning")
              THEN IF Contains(message, "ON") THEN "ON"
                   ELSE IF Contains(message, "OFF") THEN "OFF" ELSE t2
              ELSE t2
        t4 == IF Contains(message, "Charging") /\ ~Contains(message, "from Charging")
              THEN "CHARGING" ELSE t3
    IN  IF Contains(message, "Limit") THEN "LIMIT" ELSE t4

\* lines 375-382 in iteration order
components_by_message_part ==
    << <<"Battery", "Battery">>, <<"Sevcon", "Controller">>,
       <<"DCDC", "DC-DC Converter">>, <<"Calex", "Charger">>,
       <<"External Chg", "External Charger">>, <<"Charger 6", "Charge Tank">> >>

\* lines 384-395
decode_component_from_message(message) ==
    LET parts == {i \in DOMAIN components_by_message_part :
                     Contains(message, components_by_message_part[i][1])}
    IN  IF StartsWith(message, "Module ") THEN "Battery"
        ELSE FirstMatch(components_by_message_part, parts, "MBB")

\* [A-Za-z0-9]
Alphanumerics == Letters \cup Digits

\* the attempt to match ,?\s*([A-Za-z]+\s*[A-Za-z]*):\s* at index i of s (line 468);
\* every quantifier is greedy and none can give a character back usefully,
\* so the match at i is the one of the longest runs
KeyMatchAt(s, i) ==
    LET a == IF CharAt(s, i) = "," THEN i + 1 ELSE i
        b == SkipWhile(s, a, Whitespace)
        c == SkipWhile(s, b, Letters)
        d == SkipWhile(s, c, Whitespace)
        e == SkipWhile(s, d, Letters)
    IN  [matched |-> c > b /\ CharAt(s, e) = ":",
         start |-> i,
         group1 |-> Slice(s, b, e),
         end |-> SkipWhile(s, e + 1, Whitespace)]

RECURSIVE KeyPositions(_, _)
\* list(re.finditer(...)): the leftmost match at or after from, then those after it
KeyPositions(s, from) ==
    Local([starts \in {{i \in from..(Len(s) - 1) : KeyMatchAt(s, i).matched}} |->
        IF starts = {} THEN << >>
        ELSE Local([m \in {KeyMatchAt(s, Least(starts))} |->
                 <<m>> \o KeyPositions(s, m.end)])])

RECURSIVE SplitCommas(_)
\* re.split(r",\s*", value)
SplitCommas(value) ==
    Local([i \in {Find(value, ",")} |->
        IF i < 0 THEN <<value>>
        ELSE <<Slice(value, 0, i)>>
             \o Local([rest \in {SliceFrom(value, SkipWhile(value, i + 1, Whitespace))} |-> SplitCommas(rest)])])

RECURSIVE SplitWhitespace(_)
\* re.split(r"\s+", each_value): empty pieces at the ends are kept
SplitWhitespace(each_value) ==
    Local([at \in {{i \in 0..(Len(each_value) - 1) : CharAt(each_value, i) \in Whitespace}} |->
        IF at = {} THEN <<each_value>>
        ELSE <<Slice(each_value, 0, Least(at))>>
             \o Local([rest \in {SliceFrom(each_value, SkipWhile(each_value, Least(at), Whitespace))} |-> SplitWhitespace(rest)])])

RECURSIVE StoreEachValue(_, _, _, _, _)
\* lines 474-479: the loop over values, from its n-th item; unpacking anything
\* but two pieces into each_key, each_val raises ValueError
StoreEachValue(result, key, value, values, n) ==
    IF n > Len(values) THEN Returned(result)
    ELSE IF Contains(values[n], " ")
    THEN Local([pieces \in {SplitWhitespace(values[n])} |->
             IF Len(pieces) # 2 THEN Raised("ValueError")
             ELSE Local([stored \in {DictSet(result, key \o " (" \o pieces[1] \o ")", pieces[2])} |-> StoreEachValue(stored, key, value, values, n + 1)])])
    ELSE Local([stored \in {DictSet(result, key, value)} |-> StoreEachValue(stored, key, value, values, n + 1)])

RECURSIVE StoreKeyValues(_, _, _, _)
\* lines 469-481: the loop over consecutive markers, from the n-th pair
StoreKeyValues(result, conditions, key_positions, n) ==
    IF n >= Len(key_positions) THEN Returned(result)
    ELSE Local([key \in {key_positions[n].group1} |->
         Local([value \in {Slice(conditions, key_positions[n].end, key_positions[n + 1].start)} |->
         Local([stored \in {IF Contains(value, ",")
               THEN Local([values \in {SplitCommas(value)} |-> StoreEachValue(result, key, value, values, 1)])
               ELSE Returned(DictSet(result, key, value))} |->
             IF HasRaised(stored) THEN stored
             ELSE StoreKeyValues(stored.returned, conditions, key_positions, n + 1)])])])

\* lines 464-487
conditions_to_dict(conditions) ==
    Local([key_positions \in {KeyPositions(conditions, 0)} |->
    Local([stored \in {StoreKeyValues(EmptyDict, conditions, key_positions, 1)} |->
        IF HasRaised(stored) THEN stored
        ELSE IF key_positions = << >> THEN Raised("IndexError")
        ELSE LET last_match == key_positions[Len(key_positions)]
             IN  Returned(DictSet(stored.returned, last_match.group1,
                                  SliceFrom(conditions, last_match.end)))])])

(***************************************************************************)
(* A ZeroLogEntry object and the class-level LogEntry.conditions dict      *)
(* (line 46) its attribute lookups fall back to.  own_conditions tells     *)
(* whether the instance has its own conditions attribute; an empty         *)
(* timestamp tuple is an instance without the timestamp attribute.         *)
(***************************************************************************)
\* the class attributes of lines 279-285, before __init__ sets anything
NewZeroLogEntry ==
    [entry |-> 0,
     timestamp |-> << >>,
     segment_id |-> 0,
     segment_activity |-> EMPTY_CSV_VALUE,
     event |-> EMPTY_CSV_VALUE,
     event_level |-> EMPTY_CSV_VALUE,
     event_type |-> EMPTY_CSV_VALUE,
     component |-> EMPTY_CSV_VALUE,
     own_conditions |-> FALSE,
     conditions |-> EmptyDict]

\* self.conditions as an expression: the instance's dict, else the class's
ConditionsOf(self, class_conditions) ==
    IF self.own_conditions THEN self.conditions ELSE class_conditions

\* self.conditions[key] = value: the item is set in the dict self.conditions names
SetCondition(heap, key, value) ==
    IF heap.self.own_conditions
    THEN [heap EXCEPT !.self.conditions = DictSet(@, key, value)]
    ELSE [heap EXCEPT !.class_conditions = DictSet(@, key, value)]

curr_limited_message == "Batt Dischg Cur Limited"

low_chassis_isolation_message == "Low Chassis Isolation"

module_no_condition_key == "Module"

\* the attempt to match (\d+) A \((\d+\.?\d+%)\) at index i (line 402)
AmpsMatchAt(s, i) ==
    LET c == SkipWhile(s, i, Digits)
        p == c + 4
        q == SkipWhile(s, p, Digits)
        r == SkipWhile(s, q + 1, Digits)
        dotted == q > p /\ CharAt(s, q) = "." /\ r > q + 1 /\ Slice(s, r, r + 2) = "%)"
        plain == q > p + 1 /\ Slice(s, q, q + 2) = "%)"
    IN  [matched |-> c > i /\ Slice(s, c, p) = " A (" /\ (dotted \/ plain),
         group1 |-> Slice(s, i, c),
         group2 |-> IF dotted THEN Slice(s, p, r + 1) ELSE Slice(s, p, q + 1)]

\* the attempt to match (\d+ KOhms) to cell (\d+) at index i (line 408)
KOhmsMatchAt(s, i) ==
    LET c == SkipWhile(s, i, Digits)
        p == c + 15
        q == SkipWhile(s, p, Digits)
    IN  [matched |-> c > i /\ Slice(s, c, p) = " KOhms to cell " /\ q > p,
         group1 |-> Slice(s, i, c + 6),
         group2 |-> Slice(s, p, q)]

\* re.search (line 402): the leftmost match, if any
SearchAmps(s) ==
    LET starts == {i \in 0..(Len(s) - 1) : AmpsMatchAt(s, i).matched}
    IN  IF starts = {} THEN [matched |-> FALSE] ELSE AmpsMatchAt(s, Least(starts))

\* re.search (line 408): the leftmost match, if any
SearchKOhms(s) ==
    LET starts == {i \in 0..(Len(s) - 1) : KOhmsMatchAt(s, i).matched}
    IN  IF starts = {} THEN [matched |-> FALSE] ELSE KOhmsMatchAt(s, Least(starts))

\* re.findall(r"\d+", s)[0] for an s that holds a digit
FirstDigits(s) ==
    LET i == Least({k \in 0..(Len(s) - 1) : CharAt(s, k) \in Digits})
    IN  Slice(s, i, SkipWhile(s, i, Digits))

\* re.match(r'Module \d not connected', s)
IsModuleNotConnected(s) ==
    /\ StartsWith(s, "Module ")
    /\ CharAt(s, 7) \in Digits
    /\ Slice(s, 8, 22) = " not connected"

\* re.match(r'Battery module \d+ contactor closed', s)
IsContactorClosed(s) ==
    /\ StartsWith(s, "Battery module ")
    /\ SkipWhile(s, 15, Digits) > 15
    /\ StartsWith(SliceFrom(s, SkipWhile(s, 15, Digits)), " contactor closed")

\* re.match(r'Module \d\d', s)
IsModuleTwoDigits(s) ==
    StartsWith(s, "Module ") /\ CharAt(s, 7) \in Digits /\ CharAt(s, 8) \in Digits

\* re.match(r"^(.*)\s+([0-9][A-Za-z0-9]*)$", condition_part) (line 418): the
\* greedy .* leaves one whitespace character before the last word
ConditionPartMatch(condition_part) ==
    LET t == SkipBackWhile(condition_part, Len(condition_part), Alphanumerics)
    IN  [matched |-> /\ t < Len(condition_part)
                     /\ CharAt(condition_part, t) \in Digits
                     /\ t > 0
                     /\ CharAt(condition_part, t - 1) \in Whitespace,
         group1 |-> Slice(condition_part, 0, t - 1),
         group2 |-> SliceFrom(condition_part, t)]

RECURSIVE StoreConditionParts(_, _, _)
\* lines 417-420, from the n-th of condition_parts
StoreConditionParts(heap, condition_parts, n) ==
    IF n > Len(condition_parts) THEN heap
    ELSE Local([matches \in {ConditionPartMatch(condition_parts[n])} |->
         Local([stored \in {IF matches.matched
               THEN SetCondition(heap, Strip(matches.group1), matches.group2)
               ELSE heap} |-> StoreConditionParts(stored, condition_parts, n + 1)])])

RECURSIVE SplitFields(_)
\* s.split(): the words between runs of whitespace
SplitFields(s) ==
    LET a == SkipWhile(s, 0, Whitespace)
        b == SkipWhile(s, a, {CharAt(s, k) : k \in 0..(Len(s) - 1)} \ Whitespace)
    IN  IF a >= Len(s) THEN << >>
        ELSE <<Slice(s, a, b)>> \o Local([rest \in {SliceFrom(s, b)} |-> SplitFields(rest)])

\* lines 399-438; raised is "" when the method returns
decode_special_message_conditions(heap, event_contents) ==
    LET done(h, text) == [heap |-> h, event_contents |-> text, raised |-> ""]
        conditions == ConditionsOf(heap.self, heap.class_conditions)
    IN  IF StartsWith(event_contents, curr_limited_message)
        THEN Local([matches \in {SearchAmps(event_contents)} |->
                 IF matches.matched
                 THEN done(SetCondition(SetCondition(heap, "BattAmps", matches.group1),
                                        "PackSOC", matches.group2),
                           curr_limited_message)
                 ELSE done(heap, event_contents)])
        ELSE IF StartsWith(event_contents, low_chassis_isolation_message)
        THEN Local([matches \in {SearchKOhms(event_contents)} |->
                 IF matches.matched
                 THEN done(SetCondition(SetCondition(heap, "ImpedanceKOhms", matches.group1),
                                        "Cell", matches.group2),
                           low_chassis_isolation_message)
                 ELSE done(heap, event_contents)])
        ELSE IF IsModuleNotConnected(event_contents)
        THEN Local([stored \in {SetCondition(heap, module_no_condition_key, FirstDigits(event_contents))} |->
             Local([condition_parts \in {Tail(Split(event_contents, ","))} |->
                 done(StoreConditionParts(stored, condition_parts, 1),
                      "Module not connected")])])
        ELSE IF IsContactorClosed(event_contents)
        THEN done(SetCondition(heap, module_no_condition_key, FirstDigits(event_contents)),
                  "Battery module contactor closed")
        ELSE IF IsModuleTwoDigits(event_contents)
        THEN done(SetCondition(heap, module_no_condition_key, FirstDigits(event_contents)),
                  Slice(event_contents, 0, 7) \o SliceFrom(event_contents, 10))
        ELSE IF heap.self.component = "Charge Tank"
        THEN IF "SW" \in DOMAIN conditions /\ conditions["SW"] # ""
                /\ Contains(conditions["SW"], " ")
             THEN Local([sw_conditions \in {SplitFields(conditions["SW"])} |->
                  \* the four assignments of lines 434-437, up to the first
                  \* subscript that is out of range
                  LET h1 == IF Len(sw_conditions) > 0
                            THEN SetCondition(heap, "SW", sw_conditions[1]) ELSE heap
                      h2 == IF Len(sw_conditions) > 1
                            THEN SetCondition(h1, "EVSE Voltage", sw_conditions[2]) ELSE h1
                      h3 == IF Len(sw_conditions) > 2
                            THEN SetCondition(h2, "EVSE Frequency", sw_conditions[3]) ELSE h2
                  IN  IF Len(sw_conditions) < 5
                      THEN [heap |-> h3, event_contents |-> event_contents,
                            raised |-> "IndexError"]
                      ELSE done(SetCondition(h3, "EVSE Amps", sw_conditions[5]),
                                event_contents)])
             ELSE done(heap, event_contents)
        ELSE done(heap, event_contents)

\* re.search(r"[A-Za-z]+:", event_contents).start(0), or -1 without a match
FirstKeyword(event_contents) ==
    LET starts == {i \in 0..(Len(event_contents) - 1) :
                      /\ CharAt(event_contents, i) \in Letters
                      /\ CharAt(event_contents, SkipWhile(event_contents, i, Letters)) = ":"}
    IN  IF starts = {} THEN -1 ELSE Least(starts)

\* line 458 left out: the instance gets no conditions dict of its own
KeepClassConditions(self) == self

\* line 458: self.conditions = {}
AssignEmptyConditions(self) == [self EXCEPT !.own_conditions = TRUE, !.conditions = EmptyDict]

\* line 446 left out: the text of an UNKNOWN entry is kept
KeepUnknownContents(event_type, event_contents) == event_contents

\* lines 445-446
DiscardUnknownContents(event_type, event_contents) ==
    IF event_type = "UNKNOWN" THEN EMPTY_CSV_VALUE ELSE event_contents

\* lines 440-462 on the object heap.self; raised is "" when the method returns
decode_message(heap, message) ==
    Local([level \in {decode_level_from_message(message)} |->
    Local([event_type \in {decode_type_from_message(level.event_contents)} |->
    Local([contents1 \in {DiscardUnknownContents(event_type, level.event_contents)} |->
    Local([component \in {decode_component_from_message(contents1)} |->
    Local([self1 \in {[heap.self EXCEPT !.event_level = level.event_level,
                                        !.event_type = event_type,
                                        !.component = component]} |->
    Local([idx \in {FirstKeyword(contents1)} |->
    Local([parsed \in {IF idx >= 0
                       THEN Local([conditions_field \in {Strip(SliceFrom(contents1, idx))}
                                      |-> conditions_to_dict(conditions_field)])
                       ELSE Returned(EmptyDict)} |->
        IF HasRaised(parsed)
        THEN [heap |-> [heap EXCEPT !.self = self1], raised |-> parsed.raised]
        ELSE
    Local([self2 \in {IF idx >= 0
                      THEN [self1 EXCEPT !.own_conditions = TRUE,
                                         !.conditions = parsed.returned]
                      ELSE AssignEmptyConditions(self1)} |->
    Local([contents2 \in {IF idx >= 0 THEN Strip(Slice(contents1, 0, idx))
                          ELSE contents1} |->
    Local([special \in {decode_special_message_conditions(
                            [heap EXCEPT !.self = self2], contents2)} |->
        IF special.raised # ""
        THEN [heap |-> special.heap, raised |-> special.raised]
        ELSE [heap |-> [special.heap EXCEPT !.self.event = special.event_contents],
              raised |-> ""]
    ])])])])])])])])])])

(***************************************************************************)
(* ZeroLogEntry.__init__: the entry number, the timestamp, the message     *)
(***************************************************************************)
DigitValue ==
    ("0" :> 0) @@ ("1" :> 1) @@ ("2" :> 2) @@ ("3" :> 3) @@ ("4" :> 4) @@
    ("5" :> 5) @@ ("6" :> 6) @@ ("7" :> 7) @@ ("8" :> 8) @@ ("9" :> 9)

RECURSIVE ToNumber(_)
\* the value of a run of decimal digits
ToNumber(digits) ==
    IF digits = "" THEN 0
    ELSE 10 * ToNumber(Slice(digits, 0, Len(digits) - 1))
         + DigitValue[CharAt(digits, Len(digits) - 1)]

\* int(text) for text over signs, digits and whitespace: ValueError unless the
\* stripped text is an optional sign and one or more digits
ParseInt(text) ==
    LET t == Strip(text)
        signed == CharAt(t, 0) \in {"+", "-"}
        digits == IF signed THEN SliceFrom(t, 1) ELSE t
    IN  IF digits # "" /\ SkipWhile(digits, 0, Digits) = Len(digits)
        THEN [ok |-> TRUE,
              value |-> IF CharAt(t, 0) = "-" THEN 0 - ToNumber(digits) ELSE ToNumber(digits)]
        ELSE [ok |-> FALSE]

DaysInMonth(year, month) ==
    IF month = 2
    THEN (IF year % 4 = 0 /\ (year % 100 # 0 \/ year % 400 = 0) THEN 29 ELSE 28)
    ELSE IF month \in {4, 6, 9, 11} THEN 30 ELSE 31

\* lines 306-309: datetime.strptime(timestamp_text, '%m/%d/%Y %H:%M:%S') as
\* <<year, month, day, hour, minute, second>>, or ValueError
decode_timestamp(timestamp_text) ==
    LET s == timestamp_text
        m0 == 0
        m1 == SkipWhile(s, m0, Digits)
        d0 == m1 + 1
        d1 == SkipWhile(s, d0, Digits)
        y0 == d1 + 1
        y1 == SkipWhile(s, y0, Digits)
        h0 == SkipWhile(s, y1, Whitespace)
        h1 == SkipWhile(s, h0, Digits)
        n0 == h1 + 1
        n1 == SkipWhile(s, n0, Digits)
        s0 == n1 + 1
        s1 == SkipWhile(s, s0, Digits)
        shape == /\ m1 - m0 \in {1, 2} /\ CharAt(s, m1) = "/"
                 /\ d1 - d0 \in {1, 2} /\ CharAt(s, d1) = "/"
                 /\ y1 - y0 = 4 /\ h0 > y1
                 /\ h1 - h0 \in {1, 2} /\ CharAt(s, h1) = ":"
                 /\ n1 - n0 \in {1, 2} /\ CharAt(s, n1) = ":"
                 /\ s1 - s0 \in {1, 2} /\ s1 = Len(s)
        year == ToNumber(Slice(s, y0, y1))
        month == ToNumber(Slice(s, m0, m1))
        day == ToNumber(Slice(s, d0, d1))
        hour == ToNumber(Slice(s, h0, h1))
        minute == ToNumber(Slice(s, n0, n1))
        second == ToNumber(Slice(s, s0, s1))
    IN  IF /\ shape
           /\ year >= 1 /\ month \in 1..12 /\ day \in 1..DaysInMonth(year, month)
           /\ hour <= 23 /\ minute <= 59 /\ second <= 59
        THEN [ok |-> TRUE, value |-> <<year, month, day, hour, minute, second>>]
        ELSE [ok |-> FALSE]

\* lines 290-304: ZeroLogEntry(log_text, index=index) with the class-level
\* conditions dict as it is at the call.  The outcome: the new object (when
\* the constructor returns), the class-level dict afterwards, whether the
\* "Decoding line ... failed" message of line 304 was printed, and the
\* exception that left the constructor ("" when it returned).
ZeroLogEntry(class_conditions, log_text) ==
    Local([number \in {ParseInt(Strip(Slice(log_text, 0, 9)))} |->
    Local([timestamp_text \in {Strip(Slice(log_text, 10, 32))} |->
    Local([parsed \in {decode_timestamp(timestamp_text)} |->
    Local([self1 \in {[NewZeroLogEntry EXCEPT
                          !.entry = IF number.ok THEN number.value ELSE @,
                          !.timestamp = IF timestamp_text # "" /\ parsed.ok
                                        THEN parsed.value ELSE @]} |->
    Local([message \in {Strip(SliceFrom(log_text, 33))} |->
        IF ~number.ok
        THEN [self |-> NewZeroLogEntry, class_conditions |-> class_conditions,
              failure_printed |-> TRUE, raised |-> ""]
        ELSE
    Local([decoded \in {decode_message(
                            [self |-> self1, class_conditions |-> class_conditions],
                            message)} |->
        IF decoded.raised = "ValueError"
        THEN [self |-> decoded.heap.self,
              class_conditions |-> decoded.heap.class_conditions,
              failure_printed |-> TRUE, raised |-> ""]
        ELSE [self |-> decoded.heap.self,
              class_conditions |-> decoded.heap.class_conditions,
              failure_printed |-> FALSE, raised |-> decoded.raised]
    ])])])])])])

\* what to_json (lines 534-546) shows of an entry right after its decoding
DecodedFields(outcome) ==
    IF outcome.raised # "" THEN Raised(outcome.raised)
    ELSE Returned([entry |-> outcome.self.entry,
                   timestamp |-> outcome.self.timestamp,
                   event_level |-> outcome.self.event_level,
                   event_type |-> outcome.self.event_type,
                   component |-> outcome.self.component,
                   event |-> outcome.self.event,
                   conditions |-> ConditionsOf(outcome.self, outcome.class_conditions)])

(***************************************************************************)
(* Decoding one message: a line with a well-formed entry number and        *)
(* timestamp whose message is made of up to MaxParts of the texts the      *)
(* decoding rules look for, joined without separators.                     *)
(***************************************************************************)
RECURSIVE PadRight(_, _)
\* s padded with spaces to the column width
PadRight(s, width) == IF Len(s) >= width THEN s ELSE PadRight(s \o " ", width)

\* a line of the fixed-column layout: entry number in columns 0-9, timestamp
\* in columns 10-32, message from column 33
FormatLine(number, timestamp, message) ==
    PadRight(" " \o number, 10) \o PadRight(timestamp, 23) \o message

\* the message of a line of that layout, level prefix included
MessageOf(log_text) == Strip(SliceFrom(log_text, 33))

MaxParts == 3

MessageParts ==
    {"INFO:", "WARNING:", "ERROR:", " ", "Limit", "0x", "Charging", "from ",
     " On", "Turning ", "ON", "Module 01", " K: v"}

RECURSIVE MessagesOf(_)
\* the concatenations of exactly n parts
MessagesOf(n) ==
    IF n = 0 THEN {""} ELSE {m \o part : m \in MessagesOf(n - 1), part \in MessageParts}

Messages == UNION {MessagesOf(n) : n \in 1..MaxParts}

\* the record kept of one construction
Decoding(log_text, outcome) ==
    [log_text |-> log_text,
     failure_printed |-> outcome.failure_printed,
     fields |-> DecodedFields(outcome)]

InitDecode == NoVin /\ NoEntries /\ NoConditions /\ NoHeader /\ NoFile /\ NoJoin /\ NoCalls

\* ZeroLogEntry(line) for a line holding one of the messages
DecodeMessage ==
    /\ constructed = << >>
    /\ \E message \in Messages :
       \E log_text \in {FormatLine("00001", "05/13/2018 10:06:43", message)} :
       \E outcome \in {ZeroLogEntry(LogEntry_conditions, log_text)} :
          /\ constructed' = <<Decoding(log_text, outcome)>>
          /\ LogEntry_conditions' = outcome.class_conditions
    /\ UNCHANGED <<vinVars, condVars, headerVars, fileVars, joinVars, callVars>>

NextDecode == DecodeMessage

SpecDecode == InitDecode /\ [][NextDecode]_vars

\* C4: every message that contains 'Limit', level prefix included, decodes to
\* event_type LIMIT whatever other rule matches.
C4_LimitAlwaysWins ==
    \A i \in DOMAIN constructed :
        Contains(MessageOf(constructed[i].log_text), "Limit") =>
            /\ HasReturned(constructed[i].fields)
            /\ constructed[i].fields.returned.event_type = "LIMIT"

\* C5: an entry decoded to event_type UNKNOWN has the empty event text, an
\* empty conditions map and the default component MBB.
C5_UnknownHasNoText ==
    \A i \in DOMAIN constructed :
        (HasReturned(constructed[i].fields)
            /\ constructed[i].fields.returned.event_type = "UNKNOWN") =>
            /\ constructed[i].fields.returned.event = ""
            /\ constructed[i].fields.returned.conditions = EmptyDict
            /\ constructed[i].fields.returned.component = "MBB"

C5_Witness ==
    \E i \in DOMAIN constructed :
        /\ HasReturned(constructed[i].fields)
        /\ constructed[i].fields.returned.event_type = "UNKNOWN"
        /\ MessageOf(constructed[i].log_text) = "0xModule 01 K: v"

(***************************************************************************)
(* Decoding several lines one after the other in one process: every        *)
(* construction sees the class-level dict as the earlier ones left it.     *)
(* A caller that catches what a constructor raises goes on decoding.       *)
(***************************************************************************)
MaxDecodes == 3

WellFormedTime == "05/13/2018 10:06:43"

IdemLines ==
    {FormatLine("00001", WellFormedTime, "Riding"),
     FormatLine("00002", WellFormedTime, "DEBUG: Module 01 Closing Contactor"),
     FormatLine("00003", WellFormedTime,
                "Batt Dischg Cur Limited 281 A (40.7%), MinCell: 3200mV"),
     FormatLine("00004", WellFormedTime, "Module 1 not connected, PV 3V, diff 12mV"),
     FormatLine("abc", WellFormedTime, "Module 02 Opening Contactor"),
     FormatLine("00006", "13/45/2018", "Disarmed Temp: a b c, d, N: 1"),
     FormatLine("00007", WellFormedTime, "Charger 6 SW: 206 247Vac")}

InitIdem == NoVin /\ NoEntries /\ NoConditions /\ NoHeader /\ NoFile /\ NoJoin /\ NoCalls

\* ZeroLogEntry(line) for one of the lines
DecodeLine ==
    /\ Len(constructed) < MaxDecodes
    /\ \E log_text \in IdemLines :
       \E outcome \in {ZeroLogEntry(LogEntry_conditions, log_text)} :
          /\ constructed' = Append(constructed, Decoding(log_text, outcome))
          /\ LogEntry_conditions' = outcome.class_conditions
    /\ UNCHANGED <<vinVars, condVars, headerVars, fileVars, joinVars, callVars>>

NextIdem == DecodeLine

SpecIdem == InitIdem /\ [][NextIdem]_vars

\* C6: two decodings of the same line, whatever was decoded in between, show
\* the same entry number, level, type, component, event and conditions, and
\* the class-level conditions dict is never written.
C6_DecodingIsRepeatable ==
    /\ LogEntry_conditions = EmptyDict
    /\ \A i, j \in DOMAIN constructed :
          constructed[i].log_text = constructed[j].log_text =>
              constructed[i].fields = constructed[j].fields

C6_Witness ==
    /\ Len(constructed) = 3
    /\ constructed[1].log_text = constructed[3].log_text
    /\ constructed[2].failure_printed
    /\ HasReturned(constructed[3].fields)
    /\ constructed[3].fields.returned.conditions = ("Module" :> "01")

(***************************************************************************)
(* extract_ride_data.py: ZeroLogHeader                                     *)
(***************************************************************************)
\* line 172
is_log_divider_line(log_line) == StartsWith(log_line, "+-----")

\* lines 210-216, 0-based; the scan runs off the end of a list without one
index_of_divider_line(log_lines) ==
    LET dividers == {i \in DOMAIN log_lines : is_log_divider_line(log_lines[i])}
    IN  IF dividers = {} THEN Raised("IndexError") ELSE Returned(Least(dividers) - 1)

\* lines 226-232, for the calls that name a prefix
value_from_line(header_line, prefix) == Strip(SliceFrom(header_line, Len(prefix)))

\* lines 234-240
value_from_lines(header_lines, prefix) ==
    LET labelled == {i \in DOMAIN header_lines : StartsWith(header_lines[i], prefix)}
    IN  IF labelled = {} THEN None
        ELSE value_from_line(header_lines[Least(labelled)], prefix)

\* lines 242-249
log_source(log_title) ==
    IF Contains(log_title, "MBB") THEN "MBB"
    ELSE IF Contains(log_title, "BMS") THEN "BMS"
    ELSE None

\* string.punctuation but for the grave accent, which no text below holds
Punctuation ==
    {"!", "\"", "#", "$", "%", "&", "'", "(", ")", "*", "+", ",", "-", ".", "/", ":",
     ";", "<", "=", ">", "?", "@", "[", "\\", "]", "^", "_", "{", "|", "}", "~"}

\* all(c in string.printable for c in text), for texts without control
\* characters other than tab and newline
AllPrintable(text) ==
    \A i \in 0..(Len(text) - 1) :
        CharAt(text, i) \in Letters \cup Digits \cup Punctuation \cup Whitespace

UpperCaseLetters == "ABCDEFGHIJKLMNOPQRSTUVWXYZ"

LowerCaseLetters == "abcdefghijklmnopqrstuvwxyz"

RECURSIVE Lower(_)
\* text.lower() of an ASCII text
Lower(text) ==
    IF text = "" THEN ""
    ELSE (IF Contains(UpperCaseLetters, CharAt(text, 0))
          THEN CharAt(LowerCaseLetters, Find(UpperCaseLetters, CharAt(text, 0)))
          ELSE CharAt(text, 0)) \o Lower(SliceFrom(text, 1))

MonthNames ==
    <<"jan", "feb", "mar", "apr", "may", "jun", "jul", "aug", "sep", "oct", "nov", "dec">>

\* line 204: datetime.strptime(text, '%b %d %Y %H:%M:%S') as
\* <<year, month, day, hour, minute, second>>, or ValueError
strptime_initial_date(text) ==
    LET s == text
        months == {m \in DOMAIN MonthNames : MonthNames[m] = Lower(Slice(s, 0, 3))}
        d0 == SkipWhile(s, 3, Whitespace)
        d1 == SkipWhile(s, d0, Digits)
        y0 == SkipWhile(s, d1, Whitespace)
        y1 == SkipWhile(s, y0, Digits)
        h0 == SkipWhile(s, y1, Whitespace)
        h1 == SkipWhile(s, h0, Digits)
        n0 == h1 + 1
        n1 == SkipWhile(s, n0, Digits)
        s0 == n1 + 1
        s1 == SkipWhile(s, s0, Digits)
        shape == /\ months # {} /\ d0 > 3
                 /\ d1 - d0 \in {1, 2} /\ y0 > d1
                 /\ y1 - y0 = 4 /\ h0 > y1
                 /\ h1 - h0 \in {1, 2} /\ CharAt(s, h1) = ":"
                 /\ n1 - n0 \in {1, 2} /\ CharAt(s, n1) = ":"
                 /\ s1 - s0 \in {1, 2} /\ s1 = Len(s)
        year == ToNumber(Slice(s, y0, y1))
        month == Least(months)
        day == ToNumber(Slice(s, d0, d1))
        hour == ToNumber(Slice(s, h0, h1))
        minute == ToNumber(Slice(s, n0, n1))
        second == ToNumber(Slice(s, s0, s1))
    IN  IF /\ shape
           /\ year >= 1 /\ day \in 1..DaysInMonth(year, month)
           /\ hour <= 23 /\ minute <= 59 /\ second <= 59
        THEN [ok |-> TRUE, value |-> <<year, month, day, hour, minute, second>>]
        ELSE [ok |-> FALSE]

RECURSIVE FindAllDigits(_)
\* re.findall(r"\d+", s)
FindAllDigits(s) ==
    Local([digits \in {{i \in 0..(Len(s) - 1) : CharAt(s, i) \in Digits}} |->
        IF digits = {} THEN << >>
        ELSE Local([end \in {SkipWhile(s, Least(digits), Digits)} |->
                 <<Slice(s, Least(digits), end)>>
                 \o Local([rest \in {SliceFrom(s, end)} |-> FindAllDigits(rest)])])])

RECURSIVE IndexesOf(_, _, _)
\* [i for i, letter in enumerate(s) if letter == wanted], from index i
IndexesOf(s, wanted, i) ==
    IF i >= Len(s) THEN << >>
    ELSE (IF CharAt(s, i) = wanted THEN <<i>> ELSE << >>) \o IndexesOf(s, wanted, i + 1)

RECURSIVE SplitWideSpace(_)
\* re.split(r"\s\s+", s)
SplitWideSpace(s) ==
    Local([gaps \in {{i \in 0..(Len(s) - 2) :
                        CharAt(s, i) \in Whitespace /\ CharAt(s, i + 1) \in Whitespace}} |->
        IF gaps = {} THEN <<s>>
        ELSE <<Slice(s, 0, Least(gaps))>>
             \o Local([rest \in {SliceFrom(s, SkipWhile(s, Least(gaps), Whitespace))} |->
                          SplitWideSpace(rest)])])

\* lines 190-204: the attributes the branch for the log's source sets
SourceMetadata(header_lines, source) ==
    IF source = "MBB"
    THEN Local([vin_text \in {value_from_lines(header_lines, "VIN")} |->
             \* all(... for c in None) raises TypeError
             IF vin_text = None THEN Raised("TypeError")
             \* self.model: what decode_vin returned, or NotCalled for None
             ELSE Local([model \in {IF AllPrintable(vin_text) THEN decode_vin(vin_text)
                                    ELSE NotCalled} |->
                      IF HasRaised(model) THEN model
                      ELSE Returned(
                          [mbb_metadata |->
                              [serial_no |-> value_from_lines(header_lines, "Serial number"),
                               vin |-> vin_text,
                               firmware_rev |-> value_from_lines(header_lines, "Firmware rev."),
                               board_rev |-> value_from_lines(header_lines, "Board rev."),
                               model |-> value_from_lines(header_lines, "Model")],
                           model |-> model])])])
    ELSE IF source = "BMS"
    THEN Local([initial_date \in {value_from_lines(header_lines, "Initial date")} |->
             \* strptime(None, ...) raises TypeError
             IF initial_date = None THEN Raised("TypeError")
             ELSE Local([parsed \in {strptime_initial_date(initial_date)} |->
                      IF ~parsed.ok THEN Raised("ValueError")
                      ELSE Returned(
                          [bms_metadata |->
                              [serial_no |-> value_from_lines(header_lines, "BMS serial number"),
                               pack_serial_no |->
                                   value_from_lines(header_lines, "Pack serial number"),
                               initial_date |-> parsed.value]])])])
    ELSE Returned([log_source |-> None])

\* lines 205-206: the two counts unpacked from the digit runs of header_lines[-4]
EntryCounts(header_lines) ==
    IF Len(header_lines) < 4 THEN Raised("IndexError")
    ELSE Local([counts \in {FindAllDigits(header_lines[Len(header_lines) - 3])} |->
             IF Len(counts) # 2 THEN Raised("ValueError")
             ELSE Returned([log_entries_count_actual |-> ToNumber(counts[1]),
                            log_entries_count_expected |-> ToNumber(counts[2])])])

\* lines 185-208: ZeroLogHeader(log_lines), the attributes of the new object
ZeroLogHeader(log_lines) ==
    Local([divider \in {index_of_divider_line(log_lines)} |->
        IF HasRaised(divider) THEN divider
        ELSE
    Local([header_lines \in {SubSeq(log_lines, 1, divider.returned + 1)} |->
    Local([log_title \in {Strip(header_lines[1])} |->
    Local([metadata \in {SourceMetadata(header_lines, log_source(log_title))} |->
        IF HasRaised(metadata) THEN metadata
        ELSE
    Local([counts \in {EntryCounts(header_lines)} |->
        IF HasRaised(counts) THEN counts
        ELSE
    Local([headings \in {SplitWideSpace(header_lines[Len(header_lines)])} |->
        Returned([log_title |-> log_title,
                  log_source |-> log_source(log_title),
                  divider_indexes |-> IndexesOf(header_lines[Len(header_lines) - 1], "+", 0),
                  column_labels |-> [i \in DOMAIN headings |-> Strip(headings[i])]]
                 @@ counts.returned @@ metadata.returned)
    ])])])])])])

(***************************************************************************)
(* Constructing a header from a header block of the documented layout:     *)
(* title, metadata lines, the entry-count line with up to MaxRuns runs of  *)
(* digits, the column headings and the divider, then the first entry.      *)
(***************************************************************************)
MaxRuns == 3

\* the value of each run of digits a count line may hold
RunValue == ("7" :> 7) @@ ("10" :> 10) @@ ("8397" :> 8397)

MBBBlock(vin_lines) ==
    [title |-> "Zero MBB log",
     lines |-> <<"Serial number      2015_mbb_48e0f7_00720">> \o vin_lines
               \o <<"Firmware rev.      51", "Board rev.         3",
                    "Model              DSR">>]

BMSBlock(date_lines) ==
    [title |-> "Zero BMS log",
     lines |-> <<"BMS serial number  2015_bms_1", "Pack serial number 2015_pack_1">>
               \o date_lines]

\* the blocks in which every documented field is present and well formed
WellFormedBlocks ==
    {MBBBlock(<<"VIN                538SD9Z37GCG06073">>),
     BMSBlock(<<"Initial date       Nov 17 2015 10:22:32">>)}

HeaderBlocks ==
    WellFormedBlocks \cup
    {MBBBlock(<<"VIN                538SD9Z37TCG06073">>),
     MBBBlock(<<"VIN                538SD9Z37GCG0607é">>),
     MBBBlock(<< >>),
     BMSBlock(<<"Initial date       11/17/2015">>),
     BMSBlock(<< >>),
     [title |-> "Zero log", lines |-> << >>]}

HeaderInputs ==
    {[block |-> block, runs |-> runs] :
        block \in HeaderBlocks,
        runs \in UNION {[1..n -> DOMAIN RunValue] : n \in 0..MaxRuns}}

\* the lines of the log an input stands for
HeaderLines(input) ==
    <<input.block.title, "">> \o input.block.lines
    \o <<"",
         "Printing " \o JoinWith(input.runs, " of ") \o " log entries..",
         "",
         " Entry    Time of Log            Event                      Conditions",
         "+--------+----------------------+--------------------------+---------",
         " 00001     05/13/2018 10:06:43   DEBUG: Sevcon Contactor Drive ON.">>

InitHeader ==
    /\ header_input \in HeaderInputs /\ header_result = NotCalled
    /\ NoVin /\ NoEntries /\ NoConditions /\ NoFile /\ NoJoin /\ NoCalls

\* ZeroLogHeader(log_lines)
ConstructHeader ==
    /\ header_result = NotCalled
    /\ \E log_lines \in {HeaderLines(header_input)} :
          header_result' = ZeroLogHeader(log_lines)
    /\ UNCHANGED <<header_input, vinVars, entryVars, condVars, fileVars, joinVars, callVars>>

NextHeader == ConstructHeader

SpecHeader == InitHeader /\ [][NextHeader]_vars

\* C9: a well-formed header block whose entry-count line holds at least two
\* runs of digits is constructed, with log_entries_count_actual the first run
\* and log_entries_count_expected the second.
C9_CountsFromDigitRuns ==
    (/\ header_result # NotCalled
     /\ header_input.block \in WellFormedBlocks
     /\ Len(header_input.runs) >= 2) =>
        /\ HasReturned(header_result)
        /\ header_result.returned.log_entries_count_actual = RunValue[header_input.runs[1]]
        /\ header_result.returned.log_entries_count_expected = RunValue[header_input.runs[2]]

(***************************************************************************)
(* conditions_to_dict on a text of 'key:' markers: every marker before the *)
(* last is followed by up to MaxPieces pieces separated by ', ', the last  *)
(* marker by the text that ends the field.                                 *)
(***************************************************************************)
MaxPieces == 2

\* the keys of the markers before the last one, and the last one's
CondKeys == <<"PackTemp", "PackSOC">>

LastKey == "Vpack"

CondPieces == {"h 21C", "l 20C", "91%", "a b c"}

PieceLists == UNION {[1..n -> CondPieces] : n \in 1..MaxPieces}

CondInputs ==
    {[values |-> values, last |-> "113.044V"] :
        values \in UNION {[1..n -> PieceLists] : n \in 1..Len(CondKeys)}}

\* the conditions text an input stands for
ConditionsText(input) ==
    JoinWith([i \in DOMAIN input.values |->
                 CondKeys[i] \o ": " \o JoinWith(input.values[i], ", ")], ", ")
    \o ", " \o LastKey \o ":" \o input.last

InitCond ==
    /\ cond_input \in CondInputs /\ cond_result = NotCalled
    /\ NoVin /\ NoEntries /\ NoHeader /\ NoFile /\ NoJoin /\ NoCalls

\* ZeroLogEntry.conditions_to_dict(text)
ConvertConditions ==
    /\ cond_result = NotCalled
    /\ \E conditions_text \in {ConditionsText(cond_input)} :
          cond_result' = conditions_to_dict(conditions_text)
    /\ UNCHANGED <<cond_input, vinVars, entryVars, headerVars, fileVars, joinVars, callVars>>

NextCond == ConvertConditions

SpecCond == InitCond /\ [][NextCond]_vars

\* the input of the documented example
ExampleConditions ==
    [values |-> << <<"h 21C", "l 20C">>, <<"91%">> >>, last |-> "113.044V"]

\* what the claim says the map holds for the pieces after the i-th marker
StoredAsClaimed(d, key, pieces) ==
    IF Len(pieces) = 1
    THEN key \in DOMAIN d /\ d[key] = pieces[1]
    ELSE \A n \in DOMAIN pieces :
            LET space == Find(pieces[n], " ")
                composite == key \o " (" \o Slice(pieces[n], 0, space) \o ")"
            IN  IF space >= 0
                THEN composite \in DOMAIN d /\ d[composite] = SliceFrom(pieces[n], space + 1)
                ELSE key \in DOMAIN d /\ d[key] = JoinWith(pieces, ", ")

\* C10: conditions_to_dict returns a map; a value without a comma is stored
\* under its key, a value with commas has each piece 'subkey value' stored
\* under 'key (subkey)' and a piece without a space stores the unsplit value
\* under the key; the last marker's value runs to the end of the text; the
\* documented example gives the documented map.
C10_ConditionsToDict ==
    cond_result # NotCalled =>
        /\ HasReturned(cond_result)
        /\ \A i \in DOMAIN cond_input.values :
              StoredAsClaimed(cond_result.returned, CondKeys[i], cond_input.values[i])
        /\ LastKey \in DOMAIN cond_result.returned
        /\ cond_result.returned[LastKey] = cond_input.last
        /\ cond_input = ExampleConditions =>
              cond_result.returned =
                  ("PackTemp (h)" :> "21C") @@ ("PackTemp (l)" :> "20C")
                  @@ ("PackSOC" :> "91%") @@ ("Vpack" :> "113.044V")

(***************************************************************************)
(* extract_ride_data.py: ZeroLogFile                                       *)
(***************************************************************************)
\* lines 554-561
common_headers ==
    <<"entry", "segment_id", "segment_activity", "timestamp", "component",
      "event_type", "event_level", "event">>

\* line 493
is_battery_event(entry) == entry.component = "Battery"

\* lines 497-501: int(self.conditions['Module']) for a battery event
battery_module_no(entry, class_conditions) ==
    IF ~is_battery_event(entry) THEN Returned(None)
    ELSE
    Local([conditions \in {ConditionsOf(entry, class_conditions)} |->
        IF "Module" \notin DOMAIN conditions THEN Raised("KeyError")
        ELSE
    Local([number \in {ParseInt(conditions["Module"])} |->
        IF number.ok THEN Returned(number.value) ELSE Raised("ValueError")
    ])])

\* lines 505-506 and 510-511: the module number is looked up only for a
\* battery event with the wanted event text
IsModuleZeroEvent(entry, class_conditions, wanted) ==
    IF ~(is_battery_event(entry) /\ entry.event = wanted) THEN Returned(FALSE)
    ELSE
    Local([module_no \in {battery_module_no(entry, class_conditions)} |->
        IF HasRaised(module_no) THEN module_no
        ELSE Returned(module_no.returned = 0)
    ])

\* lines 503-506
is_contactor_close_entry(entry, class_conditions) ==
    IsModuleZeroEvent(entry, class_conditions, "Module Closing Contactor")

\* lines 508-511
is_contactor_open_entry(entry, class_conditions) ==
    IsModuleZeroEvent(entry, class_conditions, "Module Opening Contactor")

\* line 513
is_running_entry(entry) == entry.event_type = "RIDING"

\* line 517
is_charging_entry(entry) == entry.event_type = "CHARGING"

\* lines 565-566
InitialSegment == [segment_id |-> 0, activity |-> "STOPPED"]

\* a contactor-close entry that restarts the numbering
StepOnCloseRestarting(current) ==
    [segment_id |-> 0, activity |-> "STARTED"]

\* lines 569-570
StepOnClose(current) ==
    [segment_id |-> current.segment_id + 1, activity |-> "STARTED"]

\* a contactor-open entry that closes the segment it is in
StepOnOpenSameSegment(current) ==
    [segment_id |-> current.segment_id, activity |-> "STOPPED"]

\* lines 572-573
StepOnOpen(current) ==
    [segment_id |-> current.segment_id + 1, activity |-> "STOPPED"]

\* a RIDING or CHARGING entry that changes the activity inside the segment
StepOnEventTypeSameSegment(current, entry) ==
    IF is_running_entry(entry) /\ current.activity # "RIDING"
    THEN [segment_id |-> current.segment_id, activity |-> "RIDING"]
    ELSE IF is_charging_entry(entry) /\ current.activity # "CHARGING"
    THEN [segment_id |-> current.segment_id, activity |-> "CHARGING"]
    ELSE current

\* a RIDING or CHARGING entry that opens a segment whatever the activity is
StepOnEveryEventType(current, entry) ==
    IF is_running_entry(entry)
    THEN [segment_id |-> current.segment_id + 1, activity |-> "RIDING"]
    ELSE IF is_charging_entry(entry)
    THEN [segment_id |-> current.segment_id + 1, activity |-> "CHARGING"]
    ELSE current

\* lines 574-579
StepOnEventType(current, entry) ==
    IF is_running_entry(entry) /\ current.activity # "RIDING"
    THEN [segment_id |-> current.segment_id + 1, activity |-> "RIDING"]
    ELSE IF is_charging_entry(entry) /\ current.activity # "CHARGING"
    THEN [segment_id |-> current.segment_id + 1, activity |-> "CHARGING"]
    ELSE current

\* lines 568-579: the segment and activity after the entry's rule, or what
\* the rule's test raised
SegmentAfter(current, entry, class_conditions) ==
    Local([closing \in {is_contactor_close_entry(entry, class_conditions)} |->
        IF HasRaised(closing) THEN closing
        ELSE IF closing.returned THEN Returned(StepOnClose(current))
        ELSE
    Local([opening \in {is_contactor_open_entry(entry, class_conditions)} |->
        IF HasRaised(opening) THEN opening
        ELSE IF opening.returned THEN Returned(StepOnOpen(current))
        ELSE Returned(StepOnEventType(current, entry))
    ])])

RECURSIVE AnnotateFrom(_, _, _, _)
\* the loop of lines 567-581 from the i-th entry on: the entries as stamped
\* so far and the exception that ended the loop ("" when it ran to the end)
AnnotateFrom(entries, i, current, class_conditions) ==
    IF i > Len(entries) THEN [entries |-> entries, raised |-> ""]
    ELSE
    Local([after \in {SegmentAfter(current, entries[i], class_conditions)} |->
        IF HasRaised(after) THEN [entries |-> entries, raised |-> after.raised]
        ELSE AnnotateFrom(
                 [entries EXCEPT ![i].segment_id = after.returned.segment_id,
                                 ![i].segment_activity = after.returned.activity],
                 i + 1, after.returned, class_conditions)
    ])

\* lines 563-581
annotate_entry_segment_info(entries, class_conditions) ==
    AnnotateFrom(entries, 1, InitialSegment, class_conditions)

RECURSIVE DecodeLinesFrom(_, _, _, _)
\* lines 593-595: the list comprehension from the i-th line on.  read holds
\* the entries built so far, the class-level conditions dict, the indexes the
\* "Decoding line ... failed" message of line 304 was printed for, and the
\* exception that left a constructor ("" when none did)
DecodeLinesFrom(log_lines, i, divider_index, read) ==
    IF i > Len(log_lines) THEN read
    ELSE IF ~(i - 1 > divider_index /\ Len(log_lines[i]) > 5)
    THEN DecodeLinesFrom(log_lines, i + 1, divider_index, read)
    ELSE
    Local([outcome \in {ZeroLogEntry(read.class_conditions, log_lines[i])} |->
        IF outcome.raised # ""
        THEN [read EXCEPT !.class_conditions = outcome.class_conditions,
                          !.raised = outcome.raised]
        ELSE DecodeLinesFrom(log_lines, i + 1, divider_index,
                 [entries |-> Append(read.entries, outcome.self),
                  class_conditions |-> outcome.class_conditions,
                  printed |-> IF outcome.failure_printed
                              THEN Append(read.printed, i - 1) ELSE read.printed,
                  raised |-> ""])
    ])

\* lines 599-607, as the set of the labels: the model's dicts keep no
\* insertion order
all_conditions_keys(entries, class_conditions) ==
    UNION {DOMAIN ConditionsOf(entries[i], class_conditions) : i \in DOMAIN entries}

\* lines 583-597 on the lines readlines() returned: the attributes of the log
\* file when refresh returns or the exception that left it, the indexes of
\* the lines reported as failed, and the class-level conditions dict afterwards
ZeroLogFile_refresh(class_conditions, log_lines) ==
    Local([header \in {ZeroLogHeader(log_lines)} |->
        IF HasRaised(header)
        THEN [outcome |-> header, printed |-> << >>,
              class_conditions |-> class_conditions]
        ELSE
    Local([divider_index \in {index_of_divider_line(log_lines).returned} |->
    Local([read \in {DecodeLinesFrom(log_lines, 1, divider_index,
                         [entries |-> << >>, class_conditions |-> class_conditions,
                          printed |-> << >>, raised |-> ""])} |->
        IF read.raised # ""
        THEN [outcome |-> Raised(read.raised), printed |-> read.printed,
              class_conditions |-> read.class_conditions]
        ELSE
    Local([annotated \in {annotate_entry_segment_info(read.entries,
                                                      read.class_conditions)} |->
        IF annotated.raised # ""
        THEN [outcome |-> Raised(annotated.raised), printed |-> read.printed,
              class_conditions |-> read.class_conditions]
        ELSE [outcome |-> Returned(
                  [header |-> header.returned,
                   entries |-> annotated.entries,
                   tabular_header_labels |->
                       [common_headers |-> common_headers,
                        conditions_keys |-> all_conditions_keys(
                            annotated.entries, read.class_conditions)]]),
              printed |-> read.printed,
              class_conditions |-> read.class_conditions]
    ])])])])

(***************************************************************************)
(* Reading a log file: a well-formed MBB header followed by up to MaxLines *)
(* data lines, each a contactor-close line of module 0, a battery          *)
(* telemetry line, a contactor-open line of module 0, or a line whose      *)
(* entry-number field is not a number.                                     *)
(***************************************************************************)
MaxLines == 5

CloseLine ==
    FormatLine("00002", WellFormedTime, "DEBUG: Module 00 Closing Contactor   vmod: 113V")

TelemetryLine == FormatLine("00003", WellFormedTime, "INFO:  Module 00 SOC: 91%")

OpenLine ==
    FormatLine("00004", WellFormedTime, "DEBUG: Module 00 Opening Contactor   vmod: 0V")

MalformedLine == FormatLine("abc", WellFormedTime, "Riding")

DataLines == {CloseLine, TelemetryLine, OpenLine, MalformedLine}

\* the header block of the file, up to and including the divider
FileHeaderLines ==
    Local([lines \in {HeaderLines(
                          [block |-> MBBBlock(<<"VIN                538SD9Z37GCG06073">>),
                           runs |-> <<"7", "7">>])} |->
        SubSeq(lines, 1, Len(lines) - 1)])

\* what readlines() returns for the file: every line keeps its newline
ReadLines(data_lines) ==
    [i \in 1..(Len(FileHeaderLines) + Len(data_lines)) |->
        (IF i <= Len(FileHeaderLines)
         THEN FileHeaderLines[i] ELSE data_lines[i - Len(FileHeaderLines)]) \o "\n"]

InitFile ==
    /\ file_lines \in UNION {[1..n -> DataLines] : n \in 0..MaxLines}
    /\ file_result = NotCalled
    /\ NoVin /\ NoEntries /\ NoConditions /\ NoHeader /\ NoJoin /\ NoCalls

\* ZeroLogFile(input_filepath): lines 142-146 call refresh
OpenLogFile ==
    /\ file_result = NotCalled
    /\ \E log_lines \in {ReadLines(file_lines)} :
       \E refreshed \in {ZeroLogFile_refresh(LogEntry_conditions, log_lines)} :
          /\ file_result' = [outcome |-> refreshed.outcome, printed |-> refreshed.printed]
          /\ LogEntry_conditions' = refreshed.class_conditions
    /\ UNCHANGED <<file_lines, constructed, vinVars, condVars, headerVars, joinVars, callVars>>

NextFile == OpenLogFile

SpecFile == InitFile /\ [][NextFile]_vars

\* the entries of the log file once it is read
FileEntries ==
    IF file_result # NotCalled /\ HasReturned(file_result.outcome)
    THEN file_result.outcome.returned.entries ELSE << >>

\* a battery entry whose rule in the annotator is none of the four transitions
IsTelemetryEntry(entry) ==
    /\ is_battery_event(entry)
    /\ entry.event \notin {"Module Closing Contactor", "Module Opening Contactor"}
    /\ ~is_running_entry(entry) /\ ~is_charging_entry(entry)

\* a contactor-close entry of module 0, three telemetry entries and a
\* contactor-open entry of module 0 from the position first on
CloseTelemetryOpenAt(entries, first) ==
    /\ first + 4 <= Len(entries)
    /\ is_contactor_close_entry(entries[first], LogEntry_conditions) = Returned(TRUE)
    /\ \A k \in 1..3 : IsTelemetryEntry(entries[first + k])
    /\ is_contactor_open_entry(entries[first + 4], LogEntry_conditions) = Returned(TRUE)

\* C1 as stated: for the entries [contactor-close, three telemetry entries,
\* contactor-open] all five entries are stamped with the same segment id, the
\* close entry with STARTED and the open entry with STOPPED.
C1_AllFiveInOneSegment ==
    (Len(FileEntries) = 5 /\ CloseTelemetryOpenAt(FileEntries, 1)) =>
        /\ \A k \in 1..5 : FileEntries[k].segment_id = FileEntries[1].segment_id
        /\ FileEntries[1].segment_activity = "STARTED"
        /\ FileEntries[5].segment_activity = "STOPPED"

\* C1 amended: wherever a contactor-close entry of module 0 is followed by
\* three telemetry entries and a contactor-open entry of module 0, the close
\* entry and the three telemetry entries are stamped with one segment id and
\* the open entry with that id plus one; the close entry is stamped STARTED and
\* the open entry STOPPED.
C1_OpenStartsNextSegment ==
    \A first \in DOMAIN FileEntries :
        CloseTelemetryOpenAt(FileEntries, first) =>
            /\ \A k \in 1..3 :
                  FileEntries[first + k].segment_id = FileEntries[first].segment_id
            /\ FileEntries[first + 4].segment_id = FileEntries[first].segment_id + 1
            /\ FileEntries[first].segment_activity = "STARTED"
            /\ FileEntries[first + 4].segment_activity = "STOPPED"

C1_Witness ==
    /\ file_lines = <<CloseLine, TelemetryLine, TelemetryLine, TelemetryLine, OpenLine>>
    /\ Len(FileEntries) = 5
    /\ CloseTelemetryOpenAt(FileEntries, 1)
    /\ FileEntries[1].segment_id = 1
    /\ FileEntries[5].segment_id = 2

\* the entry-number field of the line is not a parseable integer
HasMalformedNumber(log_text) == ~ParseInt(Strip(Slice(log_text, 0, 9))).ok

HasEntryNumber(log_text) == ~HasMalformedNumber(log_text)

MalformedAt == {i \in DOMAIN file_lines : HasMalformedNumber(file_lines[i])}

\* C3: when exactly one data line has an entry-number field that is not a
\* parseable integer, the file is read without an error, that line is reported
\* with its index and left out of the entries, and every other data line is
\* decoded: the entries are one fewer than the data lines.
C3_MalformedLineExcluded ==
    (file_result # NotCalled /\ Cardinality(MalformedAt) = 1) =>
        /\ HasReturned(file_result.outcome)
        /\ file_result.printed =
               <<Len(FileHeaderLines) + (CHOOSE i \in MalformedAt : TRUE) - 1>>
        /\ Len(FileEntries) = Len(file_lines) - 1
        /\ \A k \in DOMAIN FileEntries :
              FileEntries[k].entry =
                  ParseInt(Strip(Slice(SelectSeq(file_lines, HasEntryNumber)[k], 0, 9))).value

(***************************************************************************)
(* extract_ride_data.py: JoinedLog                                         *)
(* An entry is reduced to what the merge reads and writes: its timestamp   *)
(* attribute and its log_tag attribute (the empty tuple when the object    *)
(* has none), and, to tell the objects apart, the log it was read from and *)
(* its position in that log's file.                                        *)
(***************************************************************************)
\* line 635 reads log_entry.timestamp
has_timestamp(entry) == entry.timestamp # << >>

\* the entries a log file holds after it read the times of its lines in turn;
\* the time 0 stands for a line whose timestamp was not decoded
EntriesRead(times, origin) ==
    [i \in DOMAIN times |->
        [timestamp |-> IF times[i] = 0 THEN << >> ELSE <<times[i]>>,
         log_tag |-> << >>,
         origin |-> origin,
         position |-> i]]

\* lines 648-650, log.refresh(): the file is read again into a new list of new
\* objects, one per line in file order
RereadEntries(entries, origin) ==
    Local([own \in {{entries[i] : i \in {k \in DOMAIN entries : entries[k].origin = origin}}} |->
        [p \in 1..Cardinality({entry.position : entry \in own}) |->
            [(CHOOSE entry \in own : entry.position = p) EXCEPT !.log_tag = << >>]]])

\* lines 632-633 for the objects of the log with that origin wherever a list
\* holds them
TagEntries(entries, origin, key) ==
    [i \in DOMAIN entries |->
        IF entries[i].origin = origin
        THEN [entries[i] EXCEPT !.log_tag = <<key>>] ELSE entries[i]]

\* the place list.sort gives an entry among the sorted ones before it: after
\* every entry that is not later
InsertByTimestamp(sorted, entry) ==
    Local([later \in {{i \in DOMAIN sorted : sorted[i].timestamp[1] > entry.timestamp[1]}} |->
    Local([place \in {IF later = {} THEN Len(sorted) + 1 ELSE Least(later)} |->
        SubSeq(sorted, 1, place - 1) \o <<entry>> \o SubSeq(sorted, place, Len(sorted))
    ])])

RECURSIVE SortedUpTo(_, _)
\* the first n entries in the order of the stable sort
SortedUpTo(entries, n) ==
    IF n = 0 THEN << >>
    ELSE InsertByTimestamp(SortedUpTo(entries, n - 1), entries[n])

\* a merge that leaves the entries in the order of their arrival
KeepArrivalOrder(entries) == entries

\* line 635: all_entries.sort(key=lambda log_entry: log_entry.timestamp)
SortByTimestamp(entries) == SortedUpTo(entries, Len(entries))

\* lines 627-636 for one secondary log under the key: the list primary_log.entries
\* names afterwards (it is all_entries), the secondary log's entries, and the
\* exception that left the property ("" when it returned)
all_entries_by_timestamp(primary_entries, secondary_entries, key) ==
    Local([all_entries \in {TagEntries(primary_entries, "secondary", key)
                            \o TagEntries(secondary_entries, "secondary", key)} |->
        IF \E i \in DOMAIN all_entries : ~has_timestamp(all_entries[i])
        THEN [all_entries |-> all_entries,
              secondary_entries |-> TagEntries(secondary_entries, "secondary", key),
              raised |-> "AttributeError"]
        ELSE [all_entries |-> SortByTimestamp(all_entries),
              secondary_entries |-> TagEntries(secondary_entries, "secondary", key),
              raised |-> ""]
    ])

\* lines 643-651
JoinedLog_refresh(primary_entries, secondary_entries, key, deep) ==
    IF deep
    THEN all_entries_by_timestamp(RereadEntries(primary_entries, "primary"),
                                  RereadEntries(secondary_entries, "secondary"), key)
    ELSE all_entries_by_timestamp(primary_entries, secondary_entries, key)

\* lines 660-666: log_entry.log_tag of an object without the attribute
entry_to_json(log_entry) ==
    IF log_entry.log_tag = << >> THEN Raised("AttributeError")
    ELSE Returned([timestamp |-> log_entry.timestamp, LogTag |-> log_entry.log_tag[1]])

(***************************************************************************)
(* Joining a primary log and one secondary log of up to MaxEntries entries *)
(* each with times up to MaxTime, then refreshing the joined log up to     *)
(* MaxRefreshes times while the files stay as they are.                    *)
(***************************************************************************)
MaxEntries == 2

MaxTime == 3

MaxRefreshes == 2

\* the key of the secondary log in secondary_logs
SecondaryTag == "bms"

LogTimes == UNION {[1..n -> 0..MaxTime] : n \in 0..MaxEntries}

InitJoin ==
    /\ primary_log \in {EntriesRead(times, "primary") : times \in LogTimes}
    /\ secondary_log \in {EntriesRead(times, "secondary") : times \in LogTimes}
    /\ joined = NotCalled
    /\ NoVin /\ NoEntries /\ NoConditions /\ NoHeader /\ NoFile /\ NoCalls

\* the joined log and its two logs after the refresh that ends a call
Refreshed(merged, refreshes) ==
    /\ primary_log' = merged.all_entries
    /\ secondary_log' = merged.secondary_entries
    /\ joined' = IF merged.raised # "" THEN Raised(merged.raised)
                 ELSE Returned([sorted_entries |-> merged.all_entries,
                                refreshes |-> refreshes])

\* primary_log.join_log(SecondaryTag, secondary_log): lines 157-162, 622-625
ConstructJoinedLog ==
    /\ joined = NotCalled
    /\ \E merged \in {JoinedLog_refresh(primary_log, secondary_log, SecondaryTag, FALSE)} :
          Refreshed(merged, 0)
    /\ UNCHANGED <<vinVars, entryVars, condVars, headerVars, fileVars, callVars>>

\* joined.refresh(deep=deep)
RefreshJoinedLog ==
    /\ HasReturned(joined)
    /\ joined.returned.refreshes < MaxRefreshes
    /\ \E deep \in BOOLEAN :
       \E merged \in {JoinedLog_refresh(primary_log, secondary_log, SecondaryTag, deep)} :
          Refreshed(merged, joined.returned.refreshes + 1)
    /\ UNCHANGED <<vinVars, entryVars, condVars, headerVars, fileVars, callVars>>

NextJoin == ConstructJoinedLog \/ RefreshJoinedLog

SpecJoin == InitJoin /\ [][NextJoin]_vars

\* every entry of the two logs has a timestamp
AllHaveTimestamps ==
    /\ \A i \in DOMAIN primary_log : has_timestamp(primary_log[i])
    /\ \A i \in DOMAIN secondary_log : has_timestamp(secondary_log[i])

\* C2: a JoinedLog of a primary and one secondary log whose entries all have
\* timestamps is built; its entries are in non-decreasing order of timestamp
\* and hold every entry of the secondary log; each entry read from the
\* secondary log carries the log's key as log_tag and no entry read from the
\* primary log carries a tag.
C2_MergedSortedAndTagged ==
    (joined # NotCalled /\ AllHaveTimestamps) =>
        /\ HasReturned(joined)
        /\ \A i, j \in DOMAIN joined.returned.sorted_entries :
              i < j => joined.returned.sorted_entries[i].timestamp[1]
                           <= joined.returned.sorted_entries[j].timestamp[1]
        /\ \A i \in DOMAIN secondary_log :
              \E j \in DOMAIN joined.returned.sorted_entries :
                  joined.returned.sorted_entries[j] = secondary_log[i]
        /\ \A i \in DOMAIN joined.returned.sorted_entries :
              joined.returned.sorted_entries[i].log_tag =
                  IF joined.returned.sorted_entries[i].origin = "secondary"
                  THEN <<SecondaryTag>> ELSE << >>

C2_Witness ==
    /\ HasReturned(joined)
    /\ joined.returned.refreshes = 0
    /\ Len(joined.returned.sorted_entries) = 4
    /\ [i \in 1..4 |-> joined.returned.sorted_entries[i].origin]
           = <<"secondary", "primary", "secondary", "primary">>
    /\ [i \in 1..4 |-> joined.returned.sorted_entries[i].position] = <<2, 2, 1, 1>>

RECURSIVE bisect_right(_, _, _, _)
\* line 657: bisect_right(self.sorted_entries, dummy_entry) between lo and hi;
\* the comparison dummy_entry < entry is LogEntry.__lt__ (lines 71-75), which
\* reads the timestamp attribute of both
bisect_right(entries, when, lo, hi) ==
    IF lo >= hi THEN Returned(lo)
    ELSE
    Local([mid \in {(lo + hi) \div 2} |->
        IF ~has_timestamp(entries[mid + 1]) THEN Raised("AttributeError")
        ELSE IF when < entries[mid + 1].timestamp[1]
        THEN bisect_right(entries, when, lo, mid)
        ELSE bisect_right(entries, when, mid + 1, hi)
    ])

\* lines 653-658
entry_for_timestamp(sorted_entries, when) ==
    Local([entry_index \in {bisect_right(sorted_entries, when, 0, Len(sorted_entries))} |->
        IF HasRaised(entry_index) THEN entry_index
        ELSE IF entry_index.returned >= Len(sorted_entries) THEN Raised("IndexError")
        ELSE Returned(sorted_entries[entry_index.returned + 1])
    ])

(***************************************************************************)
(* Looking an entry up in a joined log: the log is joined as above and     *)
(* entry_for_timestamp is called with times from before the first possible *)
(* timestamp to after the last.                                            *)
(***************************************************************************)
\* joined.entry_for_timestamp(when)
EntryForTimestamp ==
    /\ HasReturned(joined)
    /\ \E when \in 0..(MaxTime + 1) :
          lookup' = [when |-> when,
                     outcome |-> entry_for_timestamp(joined.returned.sorted_entries, when)]
    /\ UNCHANGED <<vinVars, entryVars, condVars, headerVars, fileVars, joinVars,
                   messageVars, scanVars>>

NextLookup == ConstructJoinedLog \/ EntryForTimestamp

SpecLookup == InitJoin /\ [][NextLookup]_vars

\* the positions of the entries at or after the time
AtOrAfter(entries, when) == {i \in DOMAIN entries : entries[i].timestamp[1] >= when}

\* C11: in a joined log whose entries all have timestamps, for a time not
\* later than the last entry's, entry_for_timestamp returns the first entry
\* of the sorted sequence whose timestamp is at or after the time.
C11_FirstEntryAtOrAfter ==
    (/\ lookup # NotCalled
     /\ AtOrAfter(joined.returned.sorted_entries, lookup.when) # {}) =>
        /\ HasReturned(lookup.outcome)
        /\ lookup.outcome.returned =
               joined.returned.sorted_entries[
                   Least(AtOrAfter(joined.returned.sorted_entries, lookup.when))]

\* the entries the two files hold, as the logs read them
FileEntriesOfLogs ==
    {RereadEntries(primary_log, "primary")[i] :
        i \in DOMAIN RereadEntries(primary_log, "primary")}
    \cup {RereadEntries(secondary_log, "secondary")[i] :
        i \in DOMAIN RereadEntries(secondary_log, "secondary")}

\* the positions of the joined log that hold the entry of that log's file
PlacesOf(entry) ==
    {i \in DOMAIN joined.returned.sorted_entries :
        /\ joined.returned.sorted_entries[i].origin = entry.origin
        /\ joined.returned.sorted_entries[i].position = entry.position}

\* C12: after the construction and after every later refresh, deep or not,
\* with the files unchanged, the entries of the joined log are the merge of
\* the two files made from scratch: the same sequence every time, holding each
\* entry of the primary and of the secondary log exactly once.
C12_RefreshRecomputes ==
    HasReturned(joined) =>
        /\ \A entry \in FileEntriesOfLogs : Cardinality(PlacesOf(entry)) = 1
        /\ joined.returned.sorted_entries =
               all_entries_by_timestamp(RereadEntries(primary_log, "primary"),
                                        RereadEntries(secondary_log, "secondary"),
                                        SecondaryTag).all_entries

\* C13: two entries of the joined log that were read from the same log and
\* have equal timestamps are in the order they have in that log's file.
C13_TiesKeepSourceOrder ==
    HasReturned(joined) =>
        \A i, j \in DOMAIN joined.returned.sorted_entries :
            (/\ i < j
             /\ joined.returned.sorted_entries[i].origin
                    = joined.returned.sorted_entries[j].origin
             /\ joined.returned.sorted_entries[i].timestamp
                    = joined.returned.sorted_entries[j].timestamp) =>
                joined.returned.sorted_entries[i].position
                    <= joined.returned.sorted_entries[j].position

\* the constructed header's input is a block of that title with a count line
\* of two runs of digits
HeaderOfKind(title) ==
    /\ header_result # NotCalled
    /\ header_input.block.title = title
    /\ Len(header_input.runs) = 2

\* the text after the label in the first line of the input that starts with it
FieldOfInput(label) == value_from_lines(HeaderLines(header_input), label)

\* C14: for an MBB header whose VIN is made of printable characters the
\* header's model is what decode_vin gives for the VIN; when the VIN line is
\* absent or the VIN holds a character that is not printable, the header is
\* constructed without an error and its model is null.
C14_ModelFromVin ==
    HeaderOfKind("Zero MBB log") =>
        IF FieldOfInput("VIN") # None /\ AllPrintable(FieldOfInput("VIN"))
        THEN IF HasRaised(decode_vin(FieldOfInput("VIN")))
             THEN header_result = decode_vin(FieldOfInput("VIN"))
             ELSE /\ HasReturned(header_result)
                  /\ header_result.returned.model = decode_vin(FieldOfInput("VIN"))
        ELSE /\ HasReturned(header_result)
             /\ header_result.returned.model = NotCalled

\* C15: for a BMS header with an 'Initial date' field the header is
\* constructed; initial_date is the parsed date when the field matches
\* 'Mon DD YYYY HH:MM:SS' and the text of the field when it does not.
C15_InitialDateKeptWhenUnparsed ==
    (HeaderOfKind("Zero BMS log") /\ FieldOfInput("Initial date") # None) =>
        /\ HasReturned(header_result)
        /\ IF strptime_initial_date(FieldOfInput("Initial date")).ok
           THEN header_result.returned.bms_metadata.initial_date
                    = strptime_initial_date(FieldOfInput("Initial date")).value
           ELSE header_result.returned.bms_metadata.initial_date
                    = FieldOfInput("Initial date")

(***************************************************************************)
(* The two scans for the divider line, one loop iteration per step.        *)
(* index_of_divider_line indexes a list of lines, read_header_lines calls  *)
(* readline() on a file, which returns the empty string at the end of the  *)
(* input however often it is called.  The inputs are up to MaxScanLines    *)
(* lines; the empty reads at the end of the input are counted up to        *)
(* MaxEmptyReads and then again from one, every one of them being the same *)
(* empty string appended to header_lines.                                  *)
(***************************************************************************)
MaxScanLines == 3

MaxEmptyReads == 2

ScanLines == {"Zero MBB log\n", "\n", "+--------+-----\n", "  +-----\n"}

ScanInputs ==
    {[scan |-> scan, lines |-> lines] :
        scan \in {"index_of_divider_line", "read_header_lines"},
        lines \in UNION {[1..n -> ScanLines] : n \in 0..MaxScanLines}}

\* log_input_file.readline() for the n-th call
readline(lines, n) == IF n <= Len(lines) THEN lines[n] ELSE ""

\* lines 221-223: header_lines after n calls of readline(), the first line as
\* read and the later ones stripped
HeaderLinesRead(lines, n) ==
    [i \in 1..n |-> IF i = 1 THEN readline(lines, i) ELSE Strip(readline(lines, i))]

InitScan ==
    /\ scan_input \in ScanInputs /\ scan_read = 0 /\ scan_result = NotCalled
    /\ NoVin /\ NoEntries /\ NoConditions /\ NoHeader /\ NoFile /\ NoJoin
    /\ NoLookup /\ NoMessage

\* lines 213-216: one test of the while condition of index_of_divider_line
\* with last_header_line_index = scan_read, and the loop body or the return
ScanNextLine ==
    /\ scan_input.scan = "index_of_divider_line"
    /\ scan_result = NotCalled
    /\ IF scan_read >= Len(scan_input.lines)
       THEN scan_result' = Raised("IndexError") /\ UNCHANGED scan_read
       ELSE IF is_log_divider_line(scan_input.lines[scan_read + 1])
       THEN scan_result' = Returned(scan_read) /\ UNCHANGED scan_read
       ELSE scan_read' = scan_read + 1 /\ UNCHANGED scan_result
    /\ UNCHANGED <<scan_input, vinVars, entryVars, condVars, headerVars, fileVars,
                   joinVars, lookup, messageVars>>

\* lines 221-224: the first readline() of read_header_lines, then one test of
\* the while condition and the loop body or the return
ReadNextLine ==
    /\ scan_input.scan = "read_header_lines"
    /\ scan_result = NotCalled
    /\ IF scan_read = 0
       THEN scan_read' = 1 /\ UNCHANGED scan_result
       ELSE IF is_log_divider_line(HeaderLinesRead(scan_input.lines, scan_read)[scan_read])
       THEN scan_result' = Returned(HeaderLinesRead(scan_input.lines, scan_read))
            /\ UNCHANGED scan_read
       ELSE scan_read' = (IF scan_read >= Len(scan_input.lines) + MaxEmptyReads
                          THEN Len(scan_input.lines) + 1 ELSE scan_read + 1)
            /\ UNCHANGED scan_result
    /\ UNCHANGED <<scan_input, vinVars, entryVars, condVars, headerVars, fileVars,
                   joinVars, lookup, messageVars>>

NextScan == ScanNextLine \/ ReadNextLine

\* a loop that can take its next iteration takes it
SpecScan == InitScan /\ [][NextScan]_vars /\ WF_vars(NextScan)

\* no line of the input starts with the divider marker
NoDividerInInput ==
    /\ scan_input # << >>
    /\ \A i \in DOMAIN scan_input.lines : ~is_log_divider_line(scan_input.lines[i])

\* C16: on an input without a divider line both scans end, with a failure,
\* once the end of the input is reached.
C16_ScanEndsWithFailure == NoDividerInInput ~> HasRaised(scan_result)

(***************************************************************************)
(* The classmethods decode_level_from_message and decode_type_from_message *)
(* called on a message made of up to MaxParts of the texts their rules     *)
(* look for, joined without separators.                                    *)
(***************************************************************************)
RuleParts ==
    {"INFO:", "DEBUG:", "- DEBUG:", "WARNING:", "ERROR:", " ", " error", "x",
     "Charging", "from ", "Limit", " On", "Turning ", "ON"}

RECURSIVE RuleMessagesOf(_)
\* the concatenations of exactly n parts
RuleMessagesOf(n) ==
    IF n = 0 THEN {""} ELSE {m \o part : m \in RuleMessagesOf(n - 1), part \in RuleParts}

RuleMessages == UNION {RuleMessagesOf(n) : n \in 1..MaxParts}

InitMessage ==
    /\ message_input \in RuleMessages /\ message_result = NotCalled
    /\ NoVin /\ NoEntries /\ NoConditions /\ NoHeader /\ NoFile /\ NoJoin
    /\ NoLookup /\ NoScan

\* ZeroLogEntry.decode_level_from_message(message)
DecodeLevelFromMessage ==
    /\ message_result = NotCalled
    /\ message_result' = [method |-> "decode_level_from_message",
                          outcome |-> Returned(decode_level_from_message(message_input))]
    /\ UNCHANGED <<message_input, vinVars, entryVars, condVars, headerVars, fileVars,
                   joinVars, lookup, scanVars>>

\* ZeroLogEntry.decode_type_from_message(message)
DecodeTypeFromMessage ==
    /\ message_result = NotCalled
    /\ message_result' = [method |-> "decode_type_from_message",
                          outcome |-> Returned([event_type |->
                                          decode_type_from_message(message_input)])]
    /\ UNCHANGED <<message_input, vinVars, entryVars, condVars, headerVars, fileVars,
                   joinVars, lookup, scanVars>>

NextMessage == DecodeLevelFromMessage \/ DecodeTypeFromMessage

SpecMessage == InitMessage /\ [][NextMessage]_vars

\* the method was called on the message
CalledOnMessage(method) ==
    message_result # NotCalled /\ message_result.method = method

\* the literal prefixes and the level of each
LevelPrefixes ==
    {<<"INFO:", "INFO">>, <<"DEBUG:", "DEBUG">>, <<"- DEBUG:", "DEBUG">>,
     <<"WARNING:", "WARNING">>, <<"ERROR:", "ERROR">>}

\* C17: decode_level_from_message sets a level exactly when the message starts
\* with one of the five literal prefixes; then the level is the prefix's and
\* the remainder is the message without exactly that prefix, trimmed;
\* otherwise the level is empty and the message is returned unchanged.
C17_LevelFromPrefix ==
    CalledOnMessage("decode_level_from_message") =>
        /\ \A p \in LevelPrefixes :
              StartsWith(message_input, p[1]) =>
                  /\ message_result.outcome.returned.event_level = p[2]
                  /\ message_result.outcome.returned.event_contents
                         = Strip(SliceFrom(message_input, Len(p[1])))
        /\ (\A p \in LevelPrefixes : ~StartsWith(message_input, p[1])) =>
                  /\ message_result.outcome.returned.event_level = ""
                  /\ message_result.outcome.returned.event_contents = message_input

\* the positions of the occurrences of 'Charging' that 'from ' does not
\* immediately precede
ChargingNotAfterFrom(text) ==
    {i \in 0..(Len(text) - 8) :
        /\ Slice(text, i, i + 8) = "Charging"
        /\ ~(i >= 5 /\ Slice(text, i - 5, i) = "from ")}

\* C18: a message without 'Limit' that holds an occurrence of 'Charging' not
\* immediately preceded by 'from ' has the type CHARGING, whatever other rule
\* matches and whether or not another 'Charging' follows a 'from '.
C18_ChargingForced ==
    (/\ CalledOnMessage("decode_type_from_message")
     /\ ~Contains(message_input, "Limit")
     /\ ChargingNotAfterFrom(message_input) # {}) =>
        message_result.outcome.returned.event_type = "CHARGING"

(***************************************************************************)
(* The segment annotator on a log file of up to MaxSegmentLines data       *)
(* lines, each one of: a contactor-close line of module 0, a contactor-open *)
(* line of module 0, a Riding line, a Charging line, a battery telemetry   *)
(* line, or a contactor-close line that names no module.                   *)
(***************************************************************************)
MaxSegmentLines == 4

RidingLine == FormatLine("00005", WellFormedTime, "Riding")

ChargingLine == FormatLine("00006", WellFormedTime, "Charging")

NoModuleLine == FormatLine("00007", WellFormedTime, "Module Closing Contactor")

SegmentLines ==
    {CloseLine, OpenLine, RidingLine, ChargingLine, TelemetryLine, NoModuleLine}

InitSegments ==
    /\ file_lines \in UNION {[1..n -> SegmentLines] : n \in 0..MaxSegmentLines}
    /\ file_result = NotCalled
    /\ NoVin /\ NoEntries /\ NoConditions /\ NoHeader /\ NoJoin /\ NoCalls

SpecSegments == InitSegments /\ [][NextFile]_vars

\* the current segment id and activity when the loop reaches the i-th entry
SegmentBefore(entries, i) ==
    IF i = 1 THEN [segment_id |-> 0, activity |-> "STOPPED"]
    ELSE [segment_id |-> entries[i - 1].segment_id,
          activity |-> entries[i - 1].segment_activity]

\* the segment id and activity the i-th entry is stamped with
SegmentStamped(entries, i) ==
    [segment_id |-> entries[i].segment_id, activity |-> entries[i].segment_activity]

\* C19: once annotate_entry_segment_info has run over the entries, every entry
\* carries a segment id and an activity among STOPPED, STARTED, RIDING and
\* CHARGING; the first entry's segment id is 0 or 1, and from one entry to the
\* next the segment id stays or grows by one.
C19_StampedAndMonotone ==
    /\ \A i \in DOMAIN FileEntries :
          /\ FileEntries[i].segment_id \in Nat
          /\ FileEntries[i].segment_activity \in {"STOPPED", "STARTED", "RIDING", "CHARGING"}
    /\ FileEntries # << >> => FileEntries[1].segment_id \in {0, 1}
    /\ \A i \in 2..Len(FileEntries) :
          FileEntries[i].segment_id - FileEntries[i - 1].segment_id \in {0, 1}

\* a file of MaxSegmentLines entries whose segment id grows at some entries
\* and stays at others
C19_Witness ==
    /\ Len(FileEntries) = MaxSegmentLines
    /\ FileEntries[Len(FileEntries)].segment_id >= 2
    /\ \E i \in 2..Len(FileEntries) :
          FileEntries[i].segment_id = FileEntries[i - 1].segment_id

\* the rule of the annotator the entry falls under
IsCloseEntry(entry) ==
    is_contactor_close_entry(entry, LogEntry_conditions) = Returned(TRUE)

IsOpenEntry(entry) ==
    is_contactor_open_entry(entry, LogEntry_conditions) = Returned(TRUE)

\* C20: the scan starts from segment id 0 and activity STOPPED, and at each
\* entry, in this order of the rules: a contactor-close entry is stamped
\* STARTED with the id incremented; else a contactor-open entry STOPPED with
\* the id incremented; else a RIDING entry is stamped RIDING, the id
\* incremented exactly when the current activity is not RIDING; else a
\* CHARGING entry is stamped CHARGING, the id incremented exactly when the
\* current activity is not CHARGING; any other entry keeps both.
C20_StepRules ==
    \A i \in DOMAIN FileEntries :
        LET entry == FileEntries[i]
            before == SegmentBefore(FileEntries, i)
            stamped == SegmentStamped(FileEntries, i)
            incremented(activity) ==
                [segment_id |-> before.segment_id + 1, activity |-> activity]
        IN  IF IsCloseEntry(entry) THEN stamped = incremented("STARTED")
            ELSE IF IsOpenEntry(entry) THEN stamped = incremented("STOPPED")
            ELSE IF entry.event_type = "RIDING"
            THEN stamped = (IF before.activity # "RIDING"
                            THEN incremented("RIDING") ELSE before)
            ELSE IF entry.event_type = "CHARGING"
            THEN stamped = (IF before.activity # "CHARGING"
                            THEN incremented("CHARGING") ELSE before)
            ELSE stamped = before

\* a file where a RIDING entry arrives during RIDING, a CHARGING entry
\* arrives during another activity, and a contactor entry is stamped
C20_Witness ==
    /\ \E i \in DOMAIN FileEntries :
          /\ FileEntries[i].event_type = "RIDING"
          /\ SegmentBefore(FileEntries, i).activity = "RIDING"
    /\ \E i \in DOMAIN FileEntries :
          /\ FileEntries[i].event_type = "CHARGING"
          /\ SegmentBefore(FileEntries, i).activity # "CHARGING"
    /\ \E i \in DOMAIN FileEntries :
          IsCloseEntry(FileEntries[i]) \/ IsOpenEntry(FileEntries[i])

\* C21: once annotate_entry_segment_info has run, two entries with the same
\* segment id carry the same activity, and an entry's activity differs from
\* the previous entry's only where the segment id grows.
C21_OneActivityPerSegment ==
    /\ \A i, j \in DOMAIN FileEntries :
          FileEntries[i].segment_id = FileEntries[j].segment_id =>
              FileEntries[i].segment_activity = FileEntries[j].segment_activity
    /\ \A i \in DOMAIN FileEntries :
          SegmentStamped(FileEntries, i).activity # SegmentBefore(FileEntries, i).activity =>
              SegmentStamped(FileEntries, i).segment_id
                  = SegmentBefore(FileEntries, i).segment_id + 1

\* two contactor-close entries in a row, both STARTED, in consecutive
\* segments, followed by an entry that stays in the second segment
C21_Witness ==
    \E i \in DOMAIN FileEntries :
        /\ i + 2 <= Len(FileEntries)
        /\ IsCloseEntry(FileEntries[i]) /\ IsCloseEntry(FileEntries[i + 1])
        /\ FileEntries[i].segment_activity = "STARTED"
        /\ FileEntries[i + 1].segment_activity = "STARTED"
        /\ FileEntries[i + 1].segment_id = FileEntries[i].segment_id + 1
        /\ FileEntries[i + 2].segment_id = FileEntries[i + 1].segment_id

\* C22: annotate_entry_segment_info completes without raising on every
\* sequence of decoded entries, a Battery entry with the event text 'Module
\* Closing Contactor' and no 'Module' condition included: reading a file of
\* these lines, whose header and lines all decode, returns the log file.
C22_AnnotateNeverRaises ==
    file_result # NotCalled => HasReturned(file_result.outcome)

\* the entries with the source tag left out
WithoutTags(entries) ==
    [i \in DOMAIN entries |-> [entries[i] EXCEPT !.log_tag = << >>]]

\* C23: constructing the joined log and refreshing it leave the entries
\* sequence of the primary log as it was (same entries, same length, same
\* order) and change nothing of the secondary log's entries but their log_tag.
C23_SourceLogsUnchanged ==
    [][/\ primary_log' = primary_log
       /\ WithoutTags(secondary_log') = WithoutTags(secondary_log)]_vars

=============================================================================
